---- MODULE Spec2Model ----
(***************************************************************************)
(* Sliding-window aggregation over managed state (vldb-2020).              *)
(*                                                                         *)
(* The module models                                                       *)
(*   - the ManagedMap primitive of the state backends (in-memory,          *)
(*     in-memory-native, FASTER, RocksDB read-then-write, RocksDB merge),  *)
(*   - the global pane engine (window_3_faster_count, window_3_faster_rank)*)
(*   - the keyed pane engine (keyed_window_3_faster_count) and its variant *)
(*     over the sorted store (keyed_window_3a_rocksdb_count),              *)
(*   - assign_windows, the names a StateHandle gives to its primitives,    *)
(*   - ManagedValue and ManagedCount, and the forward iterator of RocksDB. *)
(*   - the refresh cadence of the FASTER backends, the merge operator of   *)
(*     the RocksDB-merge backend on serialised vectors, and the four maps  *)
(*     of integers driven in lockstep.                                     *)
(*                                                                         *)
(* Time is counted in ticks.  The engines are driven by the host           *)
(* scheduler: a batch arrives at an input time that is not behind the      *)
(* input frontier, and a requested notification is delivered once the      *)
(* frontier has passed its time, smallest time first.                      *)
(***************************************************************************)
EXTENDS Integers, Sequences, FiniteSets, TLC

VARIABLES
    backend,              \* the StateBackend implementation in use
    valueKind,            \* V of ManagedMap<K, V>: "int" (u64) or "vec" (Vec)
    db,                   \* the backend instance: [kv, serial] (SpecEquiv: one per backend)
    written,              \* history: per map key, the last write made through the API
    lastOp,               \* history: the last ManagedMap call and what it returned
    engine,               \* which window operator runs
    window_slide_ns,      \* operator parameter
    window_slice_count,   \* operator parameter
    last_slide_seen,      \* captured cursor of the operator closure
    max_window_seen,      \* captured cursor of the pane initialisation (window_3b_rocksdb)
    batch_log,            \* history: one entry per batch of window_3b_rocksdb
    to_fire,              \* captured pending-fire set (keyed operator)
    notificator,          \* times passed to notify_at and not yet delivered
    frontier,             \* input frontier: no later batch has a smaller time
    output,               \* tuples given to the output session, in order
    aborted,              \* "" while the operator runs, else the panic that stopped it
    ingested,             \* history: the records ingested so far, in order
    requested,            \* history: every time passed to notify_at, in order
    handled,              \* history: one entry per delivered notification
    primitive             \* the ManagedValue / ManagedCount / ManagedMap object a caller holds

mapVars == <<written, lastOp>>
engVars == <<engine, window_slide_ns, window_slice_count, last_slide_seen, max_window_seen,
             batch_log, to_fire,
             notificator, frontier, output, aborted, ingested, requested, handled>>
vars == <<backend, valueKind, db, mapVars, engVars, primitive>>

(***************************************************************************)
(* Bounds of the model.                                                    *)
(***************************************************************************)
MaxVal == 3          \* largest integer value stored through the map API
MaxLen == 2          \* longest vector value stored through the map API
MaxSerial == 4       \* FASTER operations issued through the map API

(***************************************************************************)
(* Option<T>                                                               *)
(***************************************************************************)
None == [some |-> FALSE]
Some(v) == [some |-> TRUE, val |-> v]

(***************************************************************************)
(* bincode (fixed-width little-endian integers, length-prefixed strings).  *)
(* Strings are sequences of character codes.                               *)
(***************************************************************************)
\* bincode::serialize(&u64): 8 bytes, least significant first.  A number of the
\* model is below 2^31, so its four high bytes are 0.
SerializeU64(n) ==
    <<n % 256, (n \div 256) % 256, (n \div 65536) % 256, (n \div 16777216) % 256,
      0, 0, 0, 0>>

\* bincode::serialize(&str): the length as u64, then the bytes.
SerializeStr(s) == SerializeU64(Len(s)) \o s

\* bincode::serialize(key) for a key that is a u64 or a tuple of u64s; the model
\* writes every key as the sequence of its components.
RECURSIVE SerializeKey(_)
SerializeKey(k) ==
    IF k = <<>> THEN <<>> ELSE SerializeU64(Head(k)) \o SerializeKey(Tail(k))

\* prefix_key: the serialised map name followed by the serialised key.
prefix_key(name, k) == SerializeStr(name) \o SerializeKey(k)

(***************************************************************************)
(* The value semigroup (FasterRmw::rmw) and the merge operators.           *)
(***************************************************************************)
FasterRmw(val, modification) ==
    IF valueKind = "int" THEN val + modification ELSE val \o modification

RECURSIVE SumSeq(_)
SumSeq(s) == IF s = <<>> THEN 0 ELSE s[1] + SumSeq(Tail(s))

RECURSIVE ConcatSeq(_)
ConcatSeq(s) == IF s = <<>> THEN <<>> ELSE s[1] \o ConcatSeq(Tail(s))

\* rocksdbmerge: merge_vectors(existing_val, operands)
merge_vectors(existing_val, operands) ==
    (IF existing_val.some THEN existing_val.val ELSE <<>>) \o ConcatSeq(operands)

\* rocksdbmerge tests: merge_operator(existing_val, operands), the integer sum
merge_operator(existing_val, operands) ==
    (IF existing_val.some THEN existing_val.val ELSE 0) + SumSeq(operands)

(***************************************************************************)
(* The backend instance.  kv maps a physical key to an entry               *)
(*   [base, ops, held]: base is the value last put (None when the entry    *)
(*   holds merge operands only), ops the merge operands appended since,    *)
(*   held whether a caller still holds the Rc that get handed out.         *)
(* serial is FASTER's monotonic_serial_number.                             *)
(***************************************************************************)
EmptyKV == [x \in {} |-> None]
NewBackend == [kv |-> EmptyKV, serial |-> 1]

InMemoryBackends == {"in_memory", "in_memory_native"}
RocksBackends == {"rocksdb", "rocksdbmerge"}
Backends == InMemoryBackends \cup RocksBackends \cup {"faster"}

Entry(v) == [base |-> Some(v), ops |-> <<>>, held |-> FALSE]

KvPut(kv, pk, e) == [x \in DOMAIN kv \cup {pk} |-> IF x = pk THEN e ELSE kv[x]]
KvDelete(kv, pk) == [x \in DOMAIN kv \ {pk} |-> kv[x]]

\* DB::get with the registered merge operator applied to the pending operands.
RocksGet(kv, pk) ==
    IF pk \notin DOMAIN kv THEN None
    ELSE IF kv[pk].ops = <<>> THEN kv[pk].base
    ELSE IF valueKind = "int" THEN Some(merge_operator(kv[pk].base, kv[pk].ops))
    ELSE Some(merge_vectors(kv[pk].base, kv[pk].ops))

\* faster_upsert / faster_read / faster_rmw: every call takes the next serial number.
FasterTick(d) == [d EXCEPT !.serial = @ + 1]

(***************************************************************************)
(* ManagedMap<K, V>, one group of operators per backend.  Every operation  *)
(* takes the backend instance d and returns [db, result].                  *)
(***************************************************************************)
Ret(d, r) == [db |-> d, result |-> r]

\* --- InMemoryManagedMap -------------------------------------------------
InMemory_insert(d, name, k, v) ==
    Ret([d EXCEPT !.kv = KvPut(@, <<name, k>>, Entry(v))], None)

\* Mutant of InMemory_get: the read takes the entry out of the map.
InMemory_get_taking(d, name, k) ==
    Ret([d EXCEPT !.kv = KvDelete(@, <<name, k>>)],
        IF <<name, k>> \in DOMAIN d.kv THEN d.kv[<<name, k>>].base ELSE None)

InMemory_get(d, name, k) ==
    Ret(d, IF <<name, k>> \in DOMAIN d.kv THEN d.kv[<<name, k>>].base ELSE None)

\* Rc::try_unwrap(val).ok(): the value only when no other Rc to it is alive.
TryUnwrap(e) == IF e.held THEN None ELSE e.base

InMemory_remove(d, name, k) ==
    LET pk == <<name, k>> IN
    IF pk \in DOMAIN d.kv
    THEN Ret([d EXCEPT !.kv = KvDelete(@, pk)], TryUnwrap(d.kv[pk]))
    ELSE Ret(d, None)

InMemory_rmw(d, name, k, modification) ==
    LET pk == <<name, k>>
        old_value == IF pk \in DOMAIN d.kv THEN TryUnwrap(d.kv[pk]) ELSE None
        new_value == IF old_value.some THEN FasterRmw(old_value.val, modification)
                     ELSE modification
    IN  Ret([d EXCEPT !.kv = KvPut(@, pk, Entry(new_value))], None)

InMemory_contains(d, name, k) == Ret(d, <<name, k>> \in DOMAIN d.kv)

\* --- InMemoryNativeManagedMap -------------------------------------------
InMemoryNative_insert(d, name, k, v) ==
    Ret([d EXCEPT !.kv = KvPut(@, <<name, k>>, Entry(v))], None)

InMemoryNative_get(d, name, k) ==
    Ret(d, IF <<name, k>> \in DOMAIN d.kv THEN d.kv[<<name, k>>].base ELSE None)

InMemoryNative_remove(d, name, k) ==
    LET pk == <<name, k>> IN
    IF pk \in DOMAIN d.kv
    THEN Ret([d EXCEPT !.kv = KvDelete(@, pk)], TryUnwrap(d.kv[pk]))
    ELSE Ret(d, None)

InMemoryNative_rmw(d, name, k, modification) ==
    LET got == InMemoryNative_get(d, name, k).result
        new_value == IF got.some THEN FasterRmw(got.val, modification) ELSE modification
    IN  InMemoryNative_insert(d, name, k, new_value)

InMemoryNative_contains(d, name, k) == Ret(d, <<name, k>> \in DOMAIN d.kv)

\* --- RocksDBManagedMap (rocksdb: read, then write) -----------------------
RocksDB_insert(d, name, k, v) ==
    Ret([d EXCEPT !.kv = KvPut(@, prefix_key(name, k), Entry(v))], None)

RocksDB_get(d, name, k) == Ret(d, RocksGet(d.kv, prefix_key(name, k)))

\* Mutant of RocksDB_remove: the prefixed key is deleted.
RocksDB_remove_deleting(d, name, k) ==
    Ret([d EXCEPT !.kv = KvDelete(@, prefix_key(name, k))],
        RocksGet(d.kv, prefix_key(name, k)))

\* remove reads the prefixed key and then deletes the key self.name.
RocksDB_remove(d, name, k) ==
    Ret([d EXCEPT !.kv = KvDelete(@, SerializeStr(name))],
        RocksGet(d.kv, prefix_key(name, k)))

RocksDB_rmw(d, name, k, modification) ==
    LET got == RocksGet(d.kv, prefix_key(name, k))
        modified == IF got.some THEN FasterRmw(got.val, modification) ELSE modification
    IN  RocksDB_insert(d, name, k, modified)

\* self.db.get(prefixed_key).is_ok(): the read succeeded, whatever it found
RocksDB_contains(d, name, k) == Ret(d, TRUE)

\* --- RocksDBManagedMap (rocksdbmerge: merge operator) --------------------
RocksDBMerge_insert(d, name, k, v) ==
    Ret([d EXCEPT !.kv = KvPut(@, prefix_key(name, k), Entry(v))], None)

RocksDBMerge_get(d, name, k) == Ret(d, RocksGet(d.kv, prefix_key(name, k)))

RocksDBMerge_remove(d, name, k) ==
    Ret([d EXCEPT !.kv = KvDelete(@, SerializeStr(name))],
        RocksGet(d.kv, prefix_key(name, k)))

\* DB::merge appends the operand; the engine combines on read.
RocksDBMerge_rmw(d, name, k, modification) ==
    LET pk == prefix_key(name, k)
        e == IF pk \in DOMAIN d.kv
             THEN [d.kv[pk] EXCEPT !.ops = Append(@, modification)]
             ELSE [base |-> None, ops |-> <<modification>>, held |-> FALSE]
    IN  Ret([d EXCEPT !.kv = KvPut(@, pk, e)], None)

RocksDBMerge_contains(d, name, k) == Ret(d, TRUE)

\* --- FASTERManagedMap ----------------------------------------------------
FASTER_insert(d, name, k, v) ==
    Ret(FasterTick([d EXCEPT !.kv = KvPut(@, prefix_key(name, k), Entry(v))]), None)

FASTER_get(d, name, k) ==
    LET pk == prefix_key(name, k) IN
    Ret(FasterTick(d), IF pk \in DOMAIN d.kv THEN d.kv[pk].base ELSE None)

\* remove is a read: nothing is deleted.
FASTER_remove(d, name, k) ==
    LET pk == prefix_key(name, k) IN
    Ret(FasterTick(d), IF pk \in DOMAIN d.kv THEN d.kv[pk].base ELSE None)

FASTER_rmw(d, name, k, modification) ==
    LET pk == prefix_key(name, k)
        new_value == IF pk \in DOMAIN d.kv
                     THEN FasterRmw(d.kv[pk].base.val, modification)
                     ELSE modification
    IN  Ret(FasterTick([d EXCEPT !.kv = KvPut(@, pk, Entry(new_value))]), None)

\* the read of the prefixed key returned status OK
FASTER_contains(d, name, k) ==
    Ret(FasterTick(d), prefix_key(name, k) \in DOMAIN d.kv)

\* --- dispatch on the backend (Box<ManagedMap<K, V>>) ---------------------
MapInsert(d, name, k, v) ==
    CASE backend = "in_memory"        -> InMemory_insert(d, name, k, v)
      [] backend = "in_memory_native" -> InMemoryNative_insert(d, name, k, v)
      [] backend = "rocksdb"          -> RocksDB_insert(d, name, k, v)
      [] backend = "rocksdbmerge"     -> RocksDBMerge_insert(d, name, k, v)
      [] backend = "faster"           -> FASTER_insert(d, name, k, v)

MapGet(d, name, k) ==
    CASE backend = "in_memory"        -> InMemory_get(d, name, k)
      [] backend = "in_memory_native" -> InMemoryNative_get(d, name, k)
      [] backend = "rocksdb"          -> RocksDB_get(d, name, k)
      [] backend = "rocksdbmerge"     -> RocksDBMerge_get(d, name, k)
      [] backend = "faster"           -> FASTER_get(d, name, k)

MapRemove(d, name, k) ==
    CASE backend = "in_memory"        -> InMemory_remove(d, name, k)
      [] backend = "in_memory_native" -> InMemoryNative_remove(d, name, k)
      [] backend = "rocksdb"          -> RocksDB_remove(d, name, k)
      [] backend = "rocksdbmerge"     -> RocksDBMerge_remove(d, name, k)
      [] backend = "faster"           -> FASTER_remove(d, name, k)

MapRmw(d, name, k, modification) ==
    CASE backend = "in_memory"        -> InMemory_rmw(d, name, k, modification)
      [] backend = "in_memory_native" -> InMemoryNative_rmw(d, name, k, modification)
      [] backend = "rocksdb"          -> RocksDB_rmw(d, name, k, modification)
      [] backend = "rocksdbmerge"     -> RocksDBMerge_rmw(d, name, k, modification)
      [] backend = "faster"           -> FASTER_rmw(d, name, k, modification)

MapContains(d, name, k) ==
    CASE backend = "in_memory"        -> InMemory_contains(d, name, k)
      [] backend = "in_memory_native" -> InMemoryNative_contains(d, name, k)
      [] backend = "rocksdb"          -> RocksDB_contains(d, name, k)
      [] backend = "rocksdbmerge"     -> RocksDBMerge_contains(d, name, k)
      [] backend = "faster"           -> FASTER_contains(d, name, k)

\* The caller keeps the Rc<V> that get returned (in-memory maps hand out the
\* stored Rc itself; the other backends a fresh copy).
KeepHandle(d, name, k) ==
    IF backend \in InMemoryBackends /\ <<name, k>> \in DOMAIN d.kv
    THEN [d EXCEPT !.kv[<<name, k>>].held = TRUE]
    ELSE d

\* The caller drops every Rc<V> it kept for key k.
DropHandle(d, name, k) ==
    IF backend \in InMemoryBackends /\ <<name, k>> \in DOMAIN d.kv
    THEN [d EXCEPT !.kv[<<name, k>>].held = FALSE]
    ELSE d

\* What get(k) would return, without the call.
Peek(d, name, k) == MapGet(d, name, k).result

(***************************************************************************)
(* SpecMap: a caller drives one ManagedMap through its API.                *)
(***************************************************************************)
\* "test", the map name of the backends' unit tests
MapName == <<116, 101, 115, 116>>
MapKeys == {<<1>>, <<2>>}

\* The values a caller passes to insert and rmw.
Inputs == IF valueKind = "int" THEN {1, 2} ELSE {<<7>>, <<9>>}

\* The model keeps stored values within MaxVal / MaxLen.
InRange(v) == IF valueKind = "int" THEN v <= MaxVal ELSE Len(v) <= MaxLen

Fresh == [kind |-> "fresh"]
View(d) == [k \in MapKeys |-> Peek(d, MapName, k)]
Budget == backend = "faster" => db.serial < MaxSerial

NoOp == [op |-> "none"]

\* SpecPrimitives alone follows the primitive objects; elsewhere the caller
\* holds its primitives for the whole run.
NoPrimitive == [kind |-> "none"]

InitOperatorIdle ==
    /\ engine = "none"
    /\ window_slide_ns = 1
    /\ window_slice_count = 1
    /\ last_slide_seen = 0
    /\ max_window_seen = 0
    /\ batch_log = <<>>
    /\ to_fire = {}
    /\ notificator = {}
    /\ frontier = 0
    /\ output = <<>>
    /\ aborted = ""
    /\ ingested = <<>>
    /\ requested = <<>>
    /\ handled = <<>>

InitMap ==
    /\ backend \in Backends
    /\ valueKind \in {"int", "vec"}
    /\ db = NewBackend
    /\ written = [k \in MapKeys |-> Fresh]
    /\ lastOp = NoOp
    /\ primitive = NoPrimitive
    /\ InitOperatorIdle

\* managed_map.insert(k, v)
DoInsert(k, v) ==
    /\ Budget
    /\ db' = MapInsert(db, MapName, k, v).db
    /\ written' = [written EXCEPT ![k] = [kind |-> "inserted", val |-> v]]
    /\ lastOp' = [op |-> "insert", key |-> k, arg |-> v, result |-> None,
                  prev |-> written[k], before |-> View(db)]
    /\ UNCHANGED <<primitive, backend, valueKind, engVars>>

\* managed_map.get(&k); the caller keeps the returned Rc or drops it at once
DoGet(k, keep) ==
    /\ Budget
    /\ LET r == MapGet(db, MapName, k) IN
        /\ db' = IF keep THEN KeepHandle(r.db, MapName, k) ELSE r.db
        /\ lastOp' = [op |-> "get", key |-> k, arg |-> keep, result |-> r.result,
                      prev |-> written[k], before |-> View(db)]
    /\ UNCHANGED <<primitive, backend, valueKind, written, engVars>>

\* managed_map.remove(&k)
DoRemove(k) ==
    /\ Budget
    /\ LET r == MapRemove(db, MapName, k) IN
        /\ db' = r.db
        /\ lastOp' = [op |-> "remove", key |-> k, arg |-> 0, result |-> r.result,
                      prev |-> written[k], before |-> View(db)]
    /\ written' = [written EXCEPT ![k] =
                      IF written[k].kind \in {"inserted", "removed"}
                      THEN [kind |-> "removed", val |-> written[k].val]
                      ELSE [kind |-> "other"]]
    /\ UNCHANGED <<primitive, backend, valueKind, engVars>>

\* managed_map.rmw(k, d)
DoRmw(k, d) ==
    /\ Budget
    /\ LET r == MapRmw(db, MapName, k, d) IN
        /\ InRange(Peek(r.db, MapName, k).val)
        /\ db' = r.db
    /\ written' = [written EXCEPT ![k] = [kind |-> "other"]]
    /\ lastOp' = [op |-> "rmw", key |-> k, arg |-> d, result |-> None,
                  prev |-> written[k], before |-> View(db)]
    /\ UNCHANGED <<primitive, backend, valueKind, engVars>>

\* managed_map.contains(&k)
DoContains(k) ==
    /\ Budget
    /\ LET r == MapContains(db, MapName, k) IN
        /\ db' = r.db
        /\ lastOp' = [op |-> "contains", key |-> k, arg |-> 0, result |-> r.result,
                      prev |-> written[k], before |-> View(db)]
    /\ UNCHANGED <<primitive, backend, valueKind, written, engVars>>

\* the caller drops the Rc it kept for k
DoDrop(k) ==
    /\ backend \in InMemoryBackends
    /\ <<MapName, k>> \in DOMAIN db.kv
    /\ db.kv[<<MapName, k>>].held
    /\ db' = DropHandle(db, MapName, k)
    /\ UNCHANGED <<primitive, backend, valueKind, mapVars, engVars>>

NextMap ==
    \/ \E k \in MapKeys : \E v \in Inputs : DoInsert(k, v)
    \/ \E k \in MapKeys : \E keep \in BOOLEAN : DoGet(k, keep)
    \/ \E k \in MapKeys : DoRemove(k)
    \/ \E k \in MapKeys : \E d \in Inputs : DoRmw(k, d)
    \/ \E k \in MapKeys : DoContains(k)
    \/ \E k \in MapKeys : DoDrop(k)

SpecMap == InitMap /\ [][NextMap]_vars

(***************************************************************************)
(* The global pane engine: window_3_faster_count and window_3_faster_rank. *)
(* A record is <<key, timestamp>> (b.auction, b.date_time).                *)
(***************************************************************************)
MaxTime == 2         \* largest input time and event timestamp, in ticks
MaxEvents == 3       \* records ingested in one run

GlobalEngines == {"window_3_faster_count", "window_3_faster_rank"}
\* the engines whose maps hold Vec values
VecEngines == {"window_3_faster_rank", "window_1_faster_rank", "window_3b_rocksdb"}
\* The operator asks its state handle for the maps again at every activation, so
\* it runs on a backend that keeps a map under its name.
EngineBackends == {"in_memory", "rocksdb", "rocksdbmerge", "faster"}
\* the count engines store integers; the merge operator RocksDBMergeBackend
\* registers (merge_vectors) reads Vec<(usize, usize)> values only
CountBackends == EngineBackends \ {"rocksdbmerge"}
RecordKeys == IF engine \in {"window_3_faster_count", "window_3b_rocksdb"} THEN {7} ELSE {7, 9}
Slides == {1, 2}
SliceCounts == {1, 2, 3}
EndOfStream == 1000 * (MaxTime + 1)

\* StateHandle::get_managed_map: the handle's name, then the map's name.
physical_name(handle, name) == handle \o name
\* the operator's state handle (a sub-handle named by the operator's id), ".1"
OperatorHandle == <<46, 49>>
\* "pane_buckets"
pane_buckets == physical_name(OperatorHandle,
                              <<112, 97, 110, 101, 95, 98, 117, 99, 107, 101, 116, 115>>)

\* ((x / window_slide_ns) + 1) * window_slide_ns
SlideEnd(x) == ((x \div window_slide_ns) + 1) * window_slide_ns

\* (start..end).step_by(step)
RECURSIVE StepBy(_, _, _)
StepBy(start, end, step) ==
    IF start >= end THEN <<>> ELSE <<start>> \o StepBy(start + step, end, step)

\* (a variant that opens last_slide_seen again)
NewSlides_inclusive(last, current_slide) ==
    StepBy(last, current_slide + window_slide_ns, window_slide_ns)

\* (a variant that asks for the current slide only)
NewSlides_current_only(last, current_slide) == <<current_slide>>

\* The slides a batch at current_slide opens: last_slide_seen excluded.
NewSlides(last, current_slide) ==
    StepBy(last + window_slide_ns, current_slide + window_slide_ns, window_slide_ns)

WindowEndOf(sl) == sl + window_slide_ns * (window_slice_count - 1)

NewWindowEnds(last, current_slide) ==
    LET sls == NewSlides(last, current_slide) IN
    [j \in 1..Len(sls) |-> WindowEndOf(sls[j])]

SeqToSet(q) == {q[j] : j \in 1..Len(q)}
MinOf(S) == CHOOSE x \in S : \A y \in S : x <= y

\* (a variant without the assertion)
SlideOrderOk_unchecked(last, current_slide) == TRUE

\* assert!(last_slide_seen <= current_slide)
SlideOrderOk(last, current_slide) == last <= current_slide

\* Capability::delayed(&new_time) panics unless the capability's time <= new_time.
CanDelay(time, new_time) == time <= new_time

\* (a variant that counts every record twice)
Contribution_twice(record) == IF valueKind = "int" THEN 2 ELSE <<record, record>>

\* what one record adds to its pane: 1 (count) or vec![record] (rank)
Contribution(record) == IF valueKind = "int" THEN 1 ELSE <<record>>

\* for record in buffer.iter() { pane_buckets.rmw(pane, ..) }
RECURSIVE IngestPanes(_, _)
IngestPanes(d, data) ==
    IF data = <<>> THEN d
    ELSE IngestPanes(MapRmw(d, pane_buckets, <<SlideEnd(data[1][2])>>,
                            Contribution(data[1])).db,
                     Tail(data))

\* history: the multiset of ingested records, written as a sorted sequence
RecordLeq(a, b) == a[2] < b[2] \/ (a[2] = b[2] /\ a[1] <= b[1])
AddRecords(log, data) == SortSeq(log \o data, LAMBDA a, b : RecordLeq(a, b) /\ a # b)

\* the keys of the logged records with timestamp in [lo, hi), ascending
KeysIn(log, lo, hi) ==
    LET idx == {j \in 1..Len(log) : lo <= log[j][2] /\ log[j][2] < hi}
        RECURSIVE Pick(_)
        Pick(S) == IF S = {} THEN <<>>
                   ELSE LET j == MinOf(S) IN <<log[j][1]>> \o Pick(S \ {j})
    IN  SortSeq(Pick(idx), LAMBDA a, b : a < b)

\* (a variant that purges without expect: a missing first pane is passed over)
RECURSIVE CountPanes_tolerant(_, _, _, _)
CountPanes_tolerant(d, time, i, count) ==
    IF i = window_slice_count THEN [db |-> d, count |-> count, ok |-> TRUE]
    ELSE LET pane == <<time - window_slide_ns * i>>
             got == MapGet(d, pane_buckets, pane)
             c2 == IF got.result.some THEN count + got.result.val ELSE count
         IN  IF i = window_slice_count - 1
             THEN CountPanes_tolerant(MapRemove(got.db, pane_buckets, pane).db,
                                      time, i + 1, c2)
             ELSE CountPanes_tolerant(got.db, time, i + 1, c2)

\* (a variant that purges the newest pane of the window instead of the first)
RECURSIVE CountPanes_purging_newest(_, _, _, _)
CountPanes_purging_newest(d, time, i, count) ==
    IF i = window_slice_count THEN [db |-> d, count |-> count, ok |-> TRUE]
    ELSE LET pane == <<time - window_slide_ns * i>>
             got == MapGet(d, pane_buckets, pane)
             c2 == IF got.result.some THEN count + got.result.val ELSE count
         IN  IF i = 0
             THEN LET rem == MapRemove(got.db, pane_buckets, pane) IN
                  IF rem.result.some THEN CountPanes_purging_newest(rem.db, time, i + 1, c2)
                  ELSE [db |-> rem.db, count |-> c2, ok |-> FALSE]
             ELSE CountPanes_purging_newest(got.db, time, i + 1, c2)

\* notificator.for_each body of window_3_faster_count: the loop over the panes.
\* Returns [db, count, ok]; ok is FALSE when expect("Pane to remove must exist") fails.
RECURSIVE CountPanes(_, _, _, _)
CountPanes(d, time, i, count) ==
    IF i = window_slice_count THEN [db |-> d, count |-> count, ok |-> TRUE]
    ELSE LET pane == <<time - window_slide_ns * i>>
             got == MapGet(d, pane_buckets, pane)
             c2 == IF got.result.some THEN count + got.result.val ELSE count
         IN  IF i = window_slice_count - 1
             THEN LET rem == MapRemove(got.db, pane_buckets, pane) IN
                  IF rem.result.some THEN CountPanes(rem.db, time, i + 1, c2)
                  ELSE [db |-> rem.db, count |-> c2, ok |-> FALSE]
             ELSE CountPanes(got.db, time, i + 1, c2)

\* for record in keys.iter() { records.push(record.0) }
Keys0(recs) == [j \in 1..Len(recs) |-> recs[j][1]]

\* notificator.for_each body of window_3_faster_rank: the loop over the panes.
RECURSIVE CollectPanes(_, _, _, _)
CollectPanes(d, time, i, records) ==
    IF i = window_slice_count THEN [db |-> d, records |-> records, ok |-> TRUE]
    ELSE LET pane == <<time - window_slide_ns * i>>
             got == MapGet(d, pane_buckets, pane)
             r2 == IF got.result.some THEN records \o Keys0(got.result.val) ELSE records
         IN  IF i = window_slice_count - 1
             THEN LET rem == MapRemove(got.db, pane_buckets, pane) IN
                  IF rem.result.some THEN CollectPanes(rem.db, time, i + 1, r2)
                  ELSE [db |-> rem.db, records |-> r2, ok |-> FALSE]
             ELSE CollectPanes(got.db, time, i + 1, r2)

\* (a variant with dense ranks: the rank after a tie group grows by one)
RECURSIVE RankLoop_dense(_, _, _, _, _)
RankLoop_dense(time, records, rank, count, current_record) ==
    IF records = <<>> THEN <<>>
    ELSE LET record == Head(records)
             rank2 == IF record # current_record THEN rank + 1 ELSE rank
         IN  <<(<<time, record, rank2>>)>>
                 \o RankLoop_dense(time, Tail(records), rank2, count, record)

\* the rank loop over the sorted records: one tuple (time, record, rank) each
RECURSIVE RankLoop(_, _, _, _, _)
RankLoop(time, records, rank, count, current_record) ==
    IF records = <<>> THEN <<>>
    ELSE LET record == Head(records)
             changed == record # current_record
             rank2 == IF changed THEN rank + count ELSE rank
             count2 == (IF changed THEN 0 ELSE count) + 1
         IN  <<(<<time, record, rank2>>)>> \o RankLoop(time, Tail(records), rank2, count2, record)

RankTuples(time, records) ==
    LET sorted == SortSeq(records, LAMBDA a, b : a < b)
    IN  RankLoop(time, sorted, 1, 0, sorted[1])

InitGlobal(engines, slides, backends) ==
    /\ primitive = NoPrimitive
    /\ engine \in engines
    /\ backend \in backends
    /\ valueKind = (IF engine \in VecEngines THEN "vec" ELSE "int")
    /\ db = NewBackend
    /\ written = [k \in MapKeys |-> Fresh]
    /\ lastOp = NoOp
    /\ window_slide_ns \in slides
    /\ window_slice_count \in SliceCounts
    /\ last_slide_seen = 0
    /\ max_window_seen = 0
    /\ batch_log = <<>>
    /\ to_fire = {}
    /\ notificator = {}
    /\ frontier = 0
    /\ output = <<>>
    /\ aborted = ""
    /\ ingested = <<>>
    /\ requested = <<>>
    /\ handled = <<>>

Abort(why) ==
    /\ aborted' = why
    /\ UNCHANGED <<primitive, backend, valueKind, db, mapVars, engine, window_slide_ns,
                   window_slice_count, max_window_seen, batch_log, last_slide_seen, to_fire, notificator, frontier,
                   output, ingested, requested, handled>>

\* input.for_each(|time, data| ..): one batch at input time t
Batch(t, data) ==
    /\ aborted = ""
    /\ engine \in GlobalEngines
    /\ t >= frontier
    /\ Len(ingested) + Len(data) <= MaxEvents
    /\ LET current_slide == SlideEnd(t)
           ends == NewWindowEnds(last_slide_seen, current_slide)
       IN  IF ~SlideOrderOk(last_slide_seen, current_slide)
           THEN Abort("assertion failed: last_slide_seen <= current_slide")
           ELSE IF \E j \in 1..Len(ends) : ~CanDelay(t, ends[j])
           THEN Abort("delayed: time not beyond the capability")
           ELSE /\ notificator' = notificator \cup SeqToSet(ends)
                /\ requested' = requested \o ends
                /\ last_slide_seen' = current_slide
                /\ db' = IngestPanes(db, data)
                /\ ingested' = AddRecords(ingested, data)
                /\ UNCHANGED <<primitive, backend, valueKind, mapVars, engine, window_slide_ns,
                               window_slice_count, max_window_seen, batch_log, to_fire, frontier, output, aborted,
                               handled>>

\* the host advances the input frontier (EndOfStream: the input is closed)
Advance(f) ==
    /\ aborted = ""
    /\ f > frontier
    /\ frontier' = f
    /\ UNCHANGED <<primitive, backend, valueKind, db, mapVars, engine, window_slide_ns,
                   window_slice_count, max_window_seen, batch_log, last_slide_seen, to_fire, notificator, output,
                   aborted, ingested, requested, handled>>

HandledEntry(time, ok, out) ==
    [time |-> time, ok |-> ok, tuples |-> out,
     window |-> KeysIn(ingested, time - window_slide_ns * window_slice_count, time),
     first |-> Len(KeysIn(ingested, time - window_slide_ns * window_slice_count,
                          time - window_slide_ns * (window_slice_count - 1))),
     missing |-> {i \in 0..(window_slice_count - 1) :
                    ~Peek(db, pane_buckets, <<time - window_slide_ns * i>>).some}]

\* notificator.for_each(|cap, _, _| ..): the notification with the smallest time,
\* once the frontier has passed it
Notify ==
    /\ aborted = ""
    /\ engine \in GlobalEngines
    /\ notificator # {}
    /\ LET time == MinOf(notificator) IN
       /\ time < frontier
       /\ notificator' = notificator \ {time}
       /\ IF engine = "window_3_faster_count"
          THEN LET r == CountPanes(db, time, 0, 0)
                   out == IF r.ok THEN <<(<<time, r.count>>)>> ELSE <<>>
               IN  /\ db' = r.db
                   /\ output' = output \o out
                   /\ aborted' = IF r.ok THEN "" ELSE "Pane to remove must exist"
                   /\ handled' = Append(handled, HandledEntry(time, r.ok, out))
          ELSE LET r == CollectPanes(db, time, 0, <<>>)
                   ok == r.ok /\ r.records # <<>>
                   out == IF ok THEN RankTuples(time, r.records) ELSE <<>>
               IN  /\ db' = r.db
                   /\ output' = output \o out
                   /\ aborted' = IF ~r.ok THEN "Pane to remove must exist"
                                 ELSE IF r.records = <<>> THEN "index out of bounds"
                                 ELSE ""
                   /\ handled' = Append(handled, HandledEntry(time, ok, out))
    /\ UNCHANGED <<primitive, backend, valueKind, mapVars, engine, window_slide_ns,
                   window_slice_count, max_window_seen, batch_log, last_slide_seen, to_fire, frontier, ingested,
                   requested>>

Records == {<<k, ts>> : k \in RecordKeys, ts \in 0..MaxTime}
Batches == {<<>>} \cup {<<r>> : r \in Records}

NextGlobal ==
    \/ \E t \in 0..MaxTime : \E data \in Batches : Batch(t, data)
    \/ \E f \in (1..(MaxTime + 1)) \cup {EndOfStream} : Advance(f)
    \/ Notify

SpecCount == InitGlobal({"window_3_faster_count"}, Slides, CountBackends) /\ [][NextGlobal]_vars
SpecRank == InitGlobal({"window_3_faster_rank"}, {2}, EngineBackends) /\ [][NextGlobal]_vars
\* both engines on the backend the workers are started with (execute.rs)
SpecPanes == InitGlobal(GlobalEngines, Slides, {"faster"}) /\ [][NextGlobal]_vars

(***************************************************************************)
(* The keyed pane engine: keyed_window_3_faster_count.                     *)
(***************************************************************************)
\* 1_000_000_000 ns, in ticks
OneSecond == 2

\* "index"
state_index == physical_name(OperatorHandle, <<105, 110, 100, 101, 120>>)

\* ((record.1 / 1_000_000_000) + 1) * 1_000_000_000
SliceEnd(ts) == ((ts \div OneSecond) + 1) * OneSecond

\* (a variant that appends the key without looking into the entry)
IndexRecord_unchecked(d, record) ==
    LET slice == <<SliceEnd(record[2])>>
        got == MapGet(d, state_index, slice)
        rem == MapRemove(got.db, state_index, slice)
        keys == (IF rem.result.some THEN rem.result.val ELSE <<>>) \o <<record[1]>>
    IN  MapInsert(rem.db, state_index, slice, keys).db

\* Add record to index
IndexRecord(d, record) ==
    LET slice == <<SliceEnd(record[2])>>
        got == MapGet(d, state_index, slice)
        exists == got.result.some
                  /\ \E j \in 1..Len(got.result.val) : got.result.val[j] = record[1]
    IN  IF exists THEN got.db
        ELSE LET rem == MapRemove(got.db, state_index, slice)
                 keys == (IF rem.result.some THEN rem.result.val ELSE <<>>)
                             \o <<record[1]>>
             IN  MapInsert(rem.db, state_index, slice, keys).db

\* for record in buffer.iter() { index; pane_buckets.rmw((record.0, pane), 1) }
RECURSIVE KeyedIngest(_, _)
KeyedIngest(d, data) ==
    IF data = <<>> THEN d
    ELSE LET record == Head(data)
             d1 == IndexRecord(d, record)
             pane == SlideEnd(record[2])
         IN  KeyedIngest(MapRmw(d1, pane_buckets, <<record[1], pane>>, 1).db, Tail(data))

\* (a variant that also leaves pending the window that ends at current_slide)
LateEnds_at_or_behind(ends, current_slide) ==
    SelectSeq(ends, LAMBDA w : w <= current_slide)

\* the window ends a batch leaves pending / asks a notification for
LateEnds(ends, current_slide) == SelectSeq(ends, LAMBDA w : w < current_slide)
DueEnds(ends, current_slide) == SelectSeq(ends, LAMBDA w : ~(w < current_slide))

\* input.for_each(|time, data| ..) of the keyed engine
KeyedBatch(t, data) ==
    /\ aborted = ""
    /\ engine = "keyed_window_3_faster_count"
    /\ t >= frontier
    /\ Len(ingested) + Len(data) <= MaxEvents
    /\ LET current_slide == SlideEnd(t)
           ends == NewWindowEnds(last_slide_seen, current_slide)
           due == DueEnds(ends, current_slide)
       IN  IF ~SlideOrderOk(last_slide_seen, current_slide)
           THEN Abort("assertion failed: last_slide_seen <= current_slide")
           ELSE IF \E j \in 1..Len(due) : ~CanDelay(t, due[j])
           THEN Abort("delayed: time not beyond the capability")
           ELSE /\ to_fire' = to_fire \cup SeqToSet(LateEnds(ends, current_slide))
                /\ notificator' = notificator \cup SeqToSet(due)
                /\ requested' = requested \o due
                /\ last_slide_seen' = current_slide
                /\ db' = KeyedIngest(db, data)
                /\ ingested' = AddRecords(ingested, data)
                /\ UNCHANGED <<primitive, backend, valueKind, mapVars, engine, window_slide_ns,
                               window_slice_count, max_window_seen, batch_log, frontier, output, aborted, handled>>

\* Step 1: the distinct keys of the slices of the window
RECURSIVE CollectKeys(_, _, _)
CollectKeys(d, slices, all_keys) ==
    IF slices = <<>> THEN [db |-> d, all_keys |-> all_keys]
    ELSE LET got == MapGet(d, state_index, <<Head(slices)>>)
             found == IF got.result.some THEN SeqToSet(got.result.val) ELSE {}
         IN  CollectKeys(got.db, Tail(slices), all_keys \cup found)

\* the panes of one key: read at cap.time() - slide * i, the last one removed
RECURSIVE KeyedPanes(_, _, _, _, _)
KeyedPanes(d, cap_time, key, i, count) ==
    IF i = window_slice_count THEN [db |-> d, count |-> count]
    ELSE LET composite_key == <<key, cap_time - window_slide_ns * i>>
             got == MapGet(d, pane_buckets, composite_key)
             c2 == IF got.result.some THEN count + got.result.val ELSE count
             d2 == IF i = window_slice_count - 1
                   THEN MapRemove(got.db, pane_buckets, composite_key).db
                   ELSE got.db
         IN  KeyedPanes(d2, cap_time, key, i + 1, c2)

\* Step 2: one tuple (key, count) per key, in the order the set yields them
RECURSIVE EmitKeys(_, _, _, _)
EmitKeys(d, cap_time, keys, out) ==
    IF keys = <<>> THEN [db |-> d, out |-> out]
    ELSE LET r == KeyedPanes(d, cap_time, Head(keys), 0, 0)
         IN  EmitKeys(r.db, cap_time, Tail(keys), Append(out, <<Head(keys), r.count>>))

\* Step 3: state_index.remove(&slice).expect("Slice must exist in index")
RECURSIVE CleanIndex(_, _)
CleanIndex(d, slices) ==
    IF slices = <<>> THEN [db |-> d, ok |-> TRUE]
    ELSE LET rem == MapRemove(d, state_index, <<Head(slices)>>)
         IN  IF rem.result.some THEN CleanIndex(rem.db, Tail(slices))
             ELSE [db |-> rem.db, ok |-> FALSE]

\* the sequences that list the elements of S once each, among those of order
InOrder(S, order) == SelectSeq(order, LAMBDA k : k \in S)

\* for window_end in windows_to_fire { .. }; orders[j] is the order in which
\* the j-th window's key set is iterated, fired the windows the loop entered
\* with the tuples each of them emitted and the keys of the records in it
RECURSIVE FireWindows(_, _, _, _, _)
FireWindows(d, cap_time, windows, orders, out) ==
    IF windows = <<>> THEN [db |-> d, out |-> out, ok |-> TRUE, fired |-> <<>>]
    ELSE LET window_end == Head(windows)
             window_start == window_end - window_slide_ns * window_slice_count
             first_slice == window_start + OneSecond
             last_slice == window_end + OneSecond
             limit == window_start + window_slide_ns
             c == CollectKeys(d, StepBy(first_slice, last_slice, OneSecond), {})
             e == EmitKeys(c.db, cap_time, InOrder(c.all_keys, Head(orders)), out)
             x == CleanIndex(e.db, StepBy(first_slice, limit + 1, OneSecond))
             this == [window_end |-> window_end,
                      tuples |-> SubSeq(e.out, Len(out) + 1, Len(e.out)),
                      window |-> KeysIn(ingested, window_start, window_end)]
         IN  IF x.ok
             THEN LET rest == FireWindows(x.db, cap_time, Tail(windows), Tail(orders), e.out)
                  IN  [rest EXCEPT !.fired = <<this>> \o @]
             ELSE [db |-> x.db, out |-> e.out, ok |-> FALSE, fired |-> <<this>>]

\* (a variant that sorts the pending set the other way round)
WindowsToFire_descending(cap_time, pending) ==
    IF Cardinality(pending) > 0
    THEN SortSeq(CHOOSE q \in [1..Cardinality(pending) -> pending] : SeqToSet(q) = pending,
                 LAMBDA a, b : a > b)
    ELSE <<cap_time>>

\* windows_to_fire: the notified time, or the sorted pending set if it is not empty
WindowsToFire(cap_time, pending) ==
    IF Cardinality(pending) > 0
    THEN SortSeq(CHOOSE q \in [1..Cardinality(pending) -> pending] : SeqToSet(q) = pending,
                 LAMBDA a, b : a < b)
    ELSE <<cap_time>>

KeyOrders == {q \in [1..Cardinality(RecordKeys) -> RecordKeys] : SeqToSet(q) = RecordKeys}

\* notificator.for_each(|cap, _, _| ..) of the keyed engine
KeyedNotify ==
    /\ aborted = ""
    /\ engine = "keyed_window_3_faster_count"
    /\ notificator # {}
    /\ LET time == MinOf(notificator)
           windows_to_fire == WindowsToFire(time, to_fire)
       IN  /\ time < frontier
           /\ notificator' = notificator \ {time}
           /\ to_fire' = {}
           /\ \E orders \in [1..Len(windows_to_fire) -> KeyOrders] :
                  LET r == FireWindows(db, time, windows_to_fire, orders, <<>>) IN
                  /\ db' = r.db
                  /\ output' = output \o r.out
                  /\ aborted' = IF r.ok THEN "" ELSE "Slice must exist in index"
                  /\ handled' = Append(handled, [time |-> time, ok |-> r.ok,
                                                 tuples |-> r.out,
                                                 windows |-> windows_to_fire,
                                                 fired |-> r.fired,
                                                 left |-> to_fire',
                                                 pending |-> to_fire,
                                                 window |-> KeysIn(ingested,
                                                     time - window_slide_ns * window_slice_count,
                                                     time)])
    /\ UNCHANGED <<primitive, backend, valueKind, mapVars, engine, window_slide_ns,
                   window_slice_count, max_window_seen, batch_log, last_slide_seen, frontier, ingested, requested>>

KeyedSlides == {1, 2}

InitKeyed ==
    /\ InitGlobal({"keyed_window_3_faster_count"}, KeyedSlides, CountBackends)

NextKeyed ==
    \/ \E t \in 0..MaxTime : \E data \in Batches : KeyedBatch(t, data)
    \/ \E f \in (1..(MaxTime + 1)) \cup {EndOfStream} : Advance(f)
    \/ KeyedNotify

SpecKeyed == InitKeyed /\ [][NextKeyed]_vars

(***************************************************************************)
(* Claims about ManagedMap, checked under SpecMap.                         *)
(***************************************************************************)
LastIs(op) == lastOp.op = op

\* C4: for every backend, remove(k) after insert(k, v) returns Some(v) and
\* deletes the entry: get(k) is None afterwards and a second remove(k)
\* returns None.  (Stated as the contract demands; the RocksDB and FASTER maps
\* break it.)
C4_RemoveDeletes ==
    LastIs("remove") =>
        /\ lastOp.prev.kind = "inserted" =>
              /\ lastOp.result = Some(lastOp.prev.val)
              /\ Peek(db, MapName, lastOp.key) = None
        /\ lastOp.prev.kind = "removed" => lastOp.result = None

\* C5: for the RocksDB, RocksDB-merge and FASTER maps, every remove(k) that
\* follows insert(k, v), the first and each repetition, returns Some(v), and
\* the entry is still stored.
C5_RemoveDoesNotRemove ==
    (LastIs("remove") /\ backend \in RocksBackends \cup {"faster"}
                      /\ lastOp.prev.kind \in {"inserted", "removed"}) =>
        /\ lastOp.result = Some(lastOp.prev.val)
        /\ Peek(db, MapName, lastOp.key) = Some(lastOp.prev.val)

C5_Witness ==
    /\ LastIs("remove") /\ backend = "rocksdb"
    /\ lastOp.prev.kind = "removed"
    /\ lastOp.result = Some(lastOp.prev.val)

\* C6: for every backend, a key never written reads None; from insert(k, v)
\* until the next insert, rmw or remove on k every get(k) returns Some(v),
\* where v is the latest inserted value; and a get leaves what get returns
\* for every key as it was.
C6_GetReadsLastInsert ==
    /\ \A k \in MapKeys :
          /\ written[k].kind = "fresh" => Peek(db, MapName, k) = None
          /\ written[k].kind = "inserted" => Peek(db, MapName, k) = Some(written[k].val)
    /\ LastIs("get") =>
          /\ lastOp.prev.kind = "fresh" => lastOp.result = None
          /\ lastOp.prev.kind = "inserted" => lastOp.result = Some(lastOp.prev.val)
          /\ View(db) = lastOp.before

C6_Witness ==
    /\ LastIs("get") /\ backend = "in_memory" /\ lastOp.arg
    /\ lastOp.prev.kind = "inserted"
    /\ lastOp.result = Some(lastOp.prev.val)
    /\ \E k \in MapKeys : k # lastOp.key /\ Peek(db, MapName, k).some

\* C7: for every backend, rmw(k, d) on a key with no entry leaves get(k) =
\* Some(d), and on a key holding v leaves get(k) = Some(combine(v, d)).
\* (Stated as the contract demands; the in-memory map breaks it while the
\* caller holds the Rc of an earlier get.)
C7_RmwCombines ==
    LastIs("rmw") =>
        Peek(db, MapName, lastOp.key) =
            Some(IF lastOp.before[lastOp.key].some
                 THEN FasterRmw(lastOp.before[lastOp.key].val, lastOp.arg)
                 ELSE lastOp.arg)

(***************************************************************************)
(* The sorted store of RocksDB: big-endian keys and forward iteration.     *)
(***************************************************************************)
Reverse(s) == [j \in 1..Len(s) |-> s[Len(s) + 1 - j]]

\* bincode::serialize(&n.to_be()): the eight bytes of n, most significant first
SerializeBe(n) == Reverse(SerializeU64(n))

\* usize::from_be(bincode::deserialize(bytes))
DeserializeBe(bytes) ==
    bytes[8] + 256 * bytes[7] + 65536 * bytes[6] + 16777216 * bytes[5]

\* a key whose components were all passed through to_be()
RECURSIVE SerializeBeKey(_)
SerializeBeKey(k) ==
    IF k = <<>> THEN <<>> ELSE SerializeBe(Head(k)) \o SerializeBeKey(Tail(k))

be_prefix_key(name, k) == SerializeStr(name) \o SerializeBeKey(k)

\* the byte-wise comparator of the store: a < b
RECURSIVE BytesLess(_, _)
BytesLess(a, b) ==
    IF b = <<>> THEN FALSE
    ELSE IF a = <<>> THEN TRUE
    ELSE IF a[1] # b[1] THEN a[1] < b[1]
    ELSE BytesLess(Tail(a), Tail(b))

RECURSIVE SortedKeys(_)
SortedKeys(S) ==
    IF S = {} THEN <<>>
    ELSE LET x == CHOOSE x \in S : \A y \in S \ {x} : BytesLess(x, y)
         IN  <<x>> \o SortedKeys(S \ {x})

\* DB::iterator(IteratorMode::From(from, Direction::Forward)): the raw keys of
\* the whole store that are not below from, ascending
RocksIterator(kv, from) == SortedKeys({x \in DOMAIN kv : ~BytesLess(x, from)})

\* RocksDBManagedMap::iter
RocksDB_iter(d, name, k) == RocksIterator(d.kv, prefix_key(name, k))

\* the operations of RocksDBManagedMap on a key the caller passed through to_be()
RocksDB_insert_be(d, name, k, v) ==
    Ret([d EXCEPT !.kv = KvPut(@, be_prefix_key(name, k), Entry(v))], None)

RocksDB_get_be(d, name, k) == Ret(d, RocksGet(d.kv, be_prefix_key(name, k)))

RocksDB_remove_be(d, name, k) ==
    Ret([d EXCEPT !.kv = KvDelete(@, SerializeStr(name))],
        RocksGet(d.kv, be_prefix_key(name, k)))

RocksDB_rmw_be(d, name, k, modification) ==
    LET got == RocksGet(d.kv, be_prefix_key(name, k))
        modified == IF got.some THEN FasterRmw(got.val, modification) ELSE modification
    IN  RocksDB_insert_be(d, name, k, modified)

RocksDB_iter_be(d, name, k) == RocksIterator(d.kv, be_prefix_key(name, k))

(***************************************************************************)
(* keyed_window_3a_rocksdb_count: the keyed count over the sorted store.   *)
(***************************************************************************)
\* "state_index1"
state_index1 == physical_name(OperatorHandle,
                              <<115, 116, 97, 116, 101, 95, 105, 110, 100, 101, 120, 49>>)

\* get_key_prefix_length(): self.name.len()
get_key_prefix_length(name) == Len(SerializeStr(name))

\* p.find(pattern).is_some() for the string serialised in the key prefix
RECURSIVE HasSubstring(_, _)
HasSubstring(str, pattern) ==
    IF Len(str) < Len(pattern) THEN FALSE
    ELSE IF SubSeq(str, 1, Len(pattern)) = pattern THEN TRUE
    ELSE HasSubstring(Tail(str), pattern)

PrefixString(ser_key, prefix_len) == SubSeq(ser_key, 9, prefix_len)
KeyBody(ser_key, prefix_len) == SubSeq(ser_key, prefix_len + 1, Len(ser_key))

\* Add key to the index, if not exists
IndexRecordBe(d, record) ==
    LET slice == <<SliceEnd(record[2])>>
        got == RocksDB_get_be(d, state_index1, slice)
        exists == got.result.some
                  /\ \E j \in 1..Len(got.result.val) : got.result.val[j] = record[1]
    IN  IF exists THEN got.db
        ELSE LET rem == RocksDB_remove_be(got.db, state_index1, slice)
                 keys == (IF rem.result.some THEN rem.result.val ELSE <<>>)
                             \o <<record[1]>>
             IN  RocksDB_insert_be(rem.db, state_index1, slice, keys).db

\* for record in buffer.iter() { index; pane_buckets.rmw((key.to_be(), pane.to_be()), 1) }
RECURSIVE KeyedIngestBe(_, _)
KeyedIngestBe(d, data) ==
    IF data = <<>> THEN d
    ELSE LET record == Head(data)
             d1 == IndexRecordBe(d, record)
             pane == SlideEnd(record[2])
         IN  KeyedIngestBe(RocksDB_rmw_be(d1, pane_buckets, <<record[1], pane>>, 1).db,
                           Tail(data))

\* input.for_each(|time, data| ..) of keyed_window_3a_rocksdb_count
Batch3a(t, data) ==
    /\ aborted = ""
    /\ engine = "keyed_window_3a_rocksdb_count"
    /\ t >= frontier
    /\ Len(ingested) + Len(data) <= MaxEvents
    /\ LET current_slide == SlideEnd(t)
           ends == NewWindowEnds(last_slide_seen, current_slide)
       IN  IF ~SlideOrderOk(last_slide_seen, current_slide)
           THEN Abort("assertion failed: last_slide_seen <= current_slide")
           ELSE IF \E j \in 1..Len(ends) : ~CanDelay(t, ends[j])
           THEN Abort("delayed: time not beyond the capability")
           ELSE /\ notificator' = notificator \cup SeqToSet(ends)
                /\ requested' = requested \o ends
                /\ last_slide_seen' = current_slide
                /\ db' = KeyedIngestBe(db, data)
                /\ ingested' = AddRecords(ingested, data)
                /\ UNCHANGED <<primitive, backend, valueKind, mapVars, engine, window_slide_ns,
                               window_slice_count, max_window_seen, batch_log, to_fire, frontier, output, aborted,
                               handled>>

\* Step 1: for (ser_key, ser_value) in index_iter: key -> min slice the key appears in
RECURSIVE MinSlices(_, _, _)
MinSlices(keys, timestamp, all_keys) ==
    IF keys = <<>> THEN all_keys
    ELSE LET key == Head(keys)
             e == IF key \in DOMAIN all_keys /\ all_keys[key] <= timestamp
                  THEN all_keys[key] ELSE timestamp
         IN  MinSlices(Tail(keys), timestamp,
                       [x \in DOMAIN all_keys \cup {key} |->
                           IF x = key THEN e ELSE all_keys[x]])

RECURSIVE IndexScan(_, _, _, _)
IndexScan(kv, index_iter, window_end, all_keys) ==
    IF index_iter = <<>> THEN all_keys
    ELSE LET ser_key == Head(index_iter)
             prefix_key_len_1 == get_key_prefix_length(state_index1)
         IN  IF ~HasSubstring(PrefixString(ser_key, prefix_key_len_1),
                              <<105, 110, 100, 101, 120>>)
             THEN all_keys
             ELSE LET timestamp == DeserializeBe(KeyBody(ser_key, prefix_key_len_1))
                      keys == RocksGet(kv, ser_key).val
                  IN  IF timestamp > window_end THEN all_keys
                      ELSE IndexScan(kv, Tail(index_iter), window_end,
                                     MinSlices(keys, timestamp, all_keys))

\* Step 2: for (ser_key, ser_value) in window_iter: [auction_id, last, count]
RECURSIVE PaneScan(_, _, _, _)
PaneScan(kv, window_iter, last_pane, st) ==
    IF window_iter = <<>> THEN st
    ELSE LET ser_key == Head(window_iter)
             prefix_key_len_2 == get_key_prefix_length(pane_buckets)
         IN  IF ~HasSubstring(PrefixString(ser_key, prefix_key_len_2),
                              <<98, 117, 99, 107, 101, 116, 115>>)
             THEN st
             ELSE LET k == KeyBody(ser_key, prefix_key_len_2)
                      auction_id == DeserializeBe(SubSeq(k, 1, 8))
                      timestamp == DeserializeBe(SubSeq(k, 9, 16))
                      record_count == RocksGet(kv, ser_key).val
                  IN  IF timestamp > last_pane
                         \/ (auction_id # st.last_auction_id_seen
                             /\ st.last_auction_id_seen # 0)
                      THEN [st EXCEPT !.auction_id = st.last_auction_id_seen]
                      ELSE PaneScan(kv, Tail(window_iter), last_pane,
                                    [auction_id |-> auction_id,
                                     last_auction_id_seen |-> auction_id,
                                     count |-> st.count + record_count])

\* Step 2: Output result for each keyed window; [out, ok], ok FALSE when the
\* assertion on the start pane fails
RECURSIVE EmitKeys3a(_, _, _, _, _, _)
EmitKeys3a(d, keys, all_keys, first_pane, last_pane, out) ==
    IF keys = <<>> THEN [out |-> out, ok |-> TRUE]
    ELSE LET key == Head(keys)
             min_slice == all_keys[key]
             floor_pane == (min_slice \div window_slide_ns) * window_slide_ns
             pane == IF floor_pane = 0 THEN first_pane ELSE floor_pane
         IN  IF ~(pane >= first_pane /\ pane < last_pane)
             THEN [out |-> out, ok |-> FALSE]
             ELSE LET window_iter == RocksDB_iter_be(d, pane_buckets, <<key, pane>>)
                      st == PaneScan(d.kv, window_iter, last_pane,
                                     [auction_id |-> 0, last_auction_id_seen |-> 0,
                                      count |-> 0])
                      out2 == IF st.auction_id # 0
                              THEN Append(out, <<st.auction_id, st.count>>)
                              ELSE out
                  IN  EmitKeys3a(d, Tail(keys), all_keys, first_pane, last_pane, out2)

\* Step 3: state_index.remove(&slice.to_be()).expect("Slice must exist in index")
RECURSIVE PurgeIndex3a(_, _)
PurgeIndex3a(d, slices) ==
    IF slices = <<>> THEN [db |-> d, ok |-> TRUE]
    ELSE LET rem == RocksDB_remove_be(d, state_index1, <<Head(slices)>>)
         IN  IF rem.result.some THEN PurgeIndex3a(rem.db, Tail(slices))
             ELSE [db |-> rem.db, ok |-> FALSE]

\* for (key, _) in all_keys { pane_buckets.remove(&(key.to_be(), first_pane.to_be())) }
RECURSIVE PurgePanes3a(_, _, _)
PurgePanes3a(d, keys, first_pane) ==
    IF keys = <<>> THEN d
    ELSE PurgePanes3a(RocksDB_remove_be(d, pane_buckets, <<Head(keys), first_pane>>).db,
                      Tail(keys), first_pane)

\* all_keys.sort_by(|a, b| a.0.cmp(&b.0))
SortedKeyList(all_keys) ==
    SortSeq(CHOOSE q \in [1..Cardinality(DOMAIN all_keys) -> DOMAIN all_keys] :
                SeqToSet(q) = DOMAIN all_keys,
            LAMBDA a, b : a < b)

\* notificator.for_each(|cap, _, _| ..) of keyed_window_3a_rocksdb_count
Notify3a ==
    /\ aborted = ""
    /\ engine = "keyed_window_3a_rocksdb_count"
    /\ notificator # {}
    /\ LET window_end == MinOf(notificator)
           window_start == window_end - window_slide_ns * window_slice_count
           first_pane == window_start + window_slide_ns
           slice_start == window_start + OneSecond
           last_pane == window_end + window_slide_ns
           all_keys == IndexScan(db.kv, RocksDB_iter_be(db, state_index1, <<slice_start>>),
                                 window_end, [x \in {} |-> 0])
           keys == SortedKeyList(all_keys)
           e == EmitKeys3a(db, keys, all_keys, first_pane, last_pane, <<>>)
           x == IF e.ok
                THEN PurgeIndex3a(db, StepBy(slice_start, first_pane + 1, OneSecond))
                ELSE [db |-> db, ok |-> FALSE]
       IN  /\ window_end < frontier
           /\ notificator' = notificator \ {window_end}
           /\ db' = IF x.ok THEN PurgePanes3a(x.db, keys, first_pane) ELSE x.db
           /\ output' = output \o e.out
           /\ aborted' = IF ~e.ok
                         THEN "assertion failed: (pane >= first_pane) && (pane < last_pane)"
                         ELSE IF ~x.ok THEN "Slice must exist in index"
                         ELSE ""
           /\ handled' = Append(handled,
                  [time |-> window_end, ok |-> x.ok, tuples |-> e.out,
                   window |-> KeysIn(ingested, window_start, window_end)])
    /\ UNCHANGED <<primitive, backend, valueKind, mapVars, engine, window_slide_ns,
                   window_slice_count, max_window_seen, batch_log, last_slide_seen, to_fire, frontier, ingested,
                   requested>>

Next3a ==
    \/ \E t \in 0..MaxTime : \E data \in Batches : Batch3a(t, data)
    \/ \E f \in (1..(MaxTime + 1)) \cup {EndOfStream} : Advance(f)
    \/ Notify3a

\* slides of one second and of half a second, on the sorted store
Init3a == InitGlobal({"keyed_window_3a_rocksdb_count"}, KeyedSlides, {"rocksdb"})

Spec3a == Init3a /\ [][Next3a]_vars

(***************************************************************************)
(* assign_windows of the keyed rank queries (keyed_window_2_faster_rank),  *)
(* a pure function: the specification applies it to bounded arguments.     *)
(***************************************************************************)
MaxEventTime == 8     \* largest event_time passed to assign_windows
MaxWindowSlide == 4   \* largest window_slide
MaxWindowSize == 6    \* largest window_size

\* (a variant that rounds the number of windows down)
FloorDiv(a, b) == a \div b

\* (window_size as f64 / window_slide as f64).ceil()
CeilDiv(a, b) == (a + b - 1) \div b

\* for i in 0i64..num_windows { .. }
RECURSIVE AssignLoop(_, _, _, _, _, _)
AssignLoop(i, num_windows, last_window_start, event_time, window_slide, window_size) ==
    IF i >= num_windows THEN <<>>
    ELSE LET w_id == last_window_start - i * window_slide
             rest == AssignLoop(i + 1, num_windows, last_window_start, event_time,
                                window_slide, window_size)
         IN  IF w_id >= 0 /\ event_time < w_id + window_size
             THEN <<w_id>> \o rest
             ELSE rest

assign_windows(event_time, window_slide, window_size) ==
    LET last_window_start == event_time - ((event_time + window_slide) % window_slide)
        num_windows == CeilDiv(window_size, window_slide)
    IN  AssignLoop(0, num_windows, last_window_start, event_time, window_slide, window_size)

\* no map and no operator in use
InitCalls ==
    /\ backend = "in_memory"
    /\ valueKind = "int"
    /\ db = NewBackend
    /\ written = [k \in MapKeys |-> Fresh]
    /\ lastOp = NoOp
    /\ primitive = NoPrimitive
    /\ InitOperatorIdle

CallAssignWindows(event_time, window_slide, window_size) ==
    /\ lastOp' = [op |-> "assign_windows", event_time |-> event_time,
                  window_slide |-> window_slide, window_size |-> window_size,
                  result |-> assign_windows(event_time, window_slide, window_size)]
    /\ UNCHANGED <<primitive, backend, valueKind, db, written, engVars>>

NextAssign ==
    \E event_time \in 0..MaxEventTime : \E window_slide \in 1..MaxWindowSlide :
        \E window_size \in 0..MaxWindowSize :
            CallAssignWindows(event_time, window_slide, window_size)

SpecAssign == InitCalls /\ [][NextAssign]_vars

(***************************************************************************)
(* StateHandle: the names of sub-handles and of the primitives they hand   *)
(* out, a pure computation applied to bounded names.                       *)
(***************************************************************************)
MaxNameLen == 2      \* longest sub-handle or primitive name
MaxPathLen == 2      \* longest chain of create_sub_handle calls

\* the characters of a name: "1" and "a"
NameChars == {49, 97}
Names == UNION {[1..n -> NameChars] : n \in 1..MaxNameLen}
Paths == UNION {[1..n -> Names] : n \in 0..MaxPathLen}

\* StateHandle::new(backend, "")
RootHandle == <<>>

\* [&self.name, name].join(".")
create_sub_handle(handle, name) == handle \o <<46>> \o name

\* the handle reached from the root by a chain of create_sub_handle calls
RECURSIVE HandleOf(_, _)
HandleOf(handle, path) ==
    IF path = <<>> THEN handle
    ELSE HandleOf(create_sub_handle(handle, Head(path)), Tail(path))

CallGetManaged(path, name) ==
    /\ lastOp' = [op |-> "get_managed_map", path |-> path, name |-> name,
                  result |-> physical_name(HandleOf(RootHandle, path), name)]
    /\ UNCHANGED <<primitive, backend, valueKind, db, written, engVars>>

NextNames == \E path \in Paths : \E name \in Names : CallGetManaged(path, name)

SpecNames == InitCalls /\ [][NextNames]_vars

(***************************************************************************)
(* ManagedValue<V>, one group of operators per backend.  d is the backend  *)
(* instance; the in-memory-native value keeps its content in the object,   *)
(* own: None, or Some([val, held]) where held says that a caller still     *)
(* holds the Rc that get handed out.                                       *)
(***************************************************************************)
\* --- InMemoryManagedValue ------------------------------------------------
InMemoryValue_set(d, name, value) ==
    Ret([d EXCEPT !.kv = KvPut(@, name, Entry(value))], None)

InMemoryValue_take(d, name) ==
    IF name \in DOMAIN d.kv
    THEN Ret([d EXCEPT !.kv = KvDelete(@, name)], TryUnwrap(d.kv[name]))
    ELSE Ret(d, None)

\* get removes the entry, unwraps it and puts a new Rc back when that worked
InMemoryValue_get(d, name) ==
    LET removed == InMemoryValue_take(d, name) IN
    IF removed.result.some
    THEN Ret(InMemoryValue_set(removed.db, name, removed.result.val).db, removed.result)
    ELSE removed

InMemoryValue_rmw(d, name, modification) ==
    LET taken == InMemoryValue_take(d, name) IN
    IF taken.result.some
    THEN InMemoryValue_set(taken.db, name, FasterRmw(taken.result.val, modification))
    ELSE InMemoryValue_set(taken.db, name, modification)

\* --- InMemoryNativeManagedValue -------------------------------------------
OwnRet(o, r) == [own |-> o, result |-> r]

InMemoryNativeValue_set(own, value) ==
    OwnRet(Some([val |-> value, held |-> FALSE]), None)

InMemoryNativeValue_get(own) ==
    OwnRet(own, IF own.some THEN Some(own.val.val) ELSE None)

InMemoryNativeValue_take(own) ==
    OwnRet(None, IF own.some /\ ~own.val.held THEN Some(own.val.val) ELSE None)

InMemoryNativeValue_rmw(own, modification) ==
    OwnRet(Some([val |-> IF own.some THEN FasterRmw(own.val.val, modification)
                         ELSE modification,
                 held |-> FALSE]), None)

\* --- FASTERManagedValue ----------------------------------------------------
FASTERValue_set(d, name, value) ==
    Ret(FasterTick([d EXCEPT !.kv = KvPut(@, SerializeStr(name), Entry(value))]), None)

FASTERValue_get(d, name) ==
    LET pk == SerializeStr(name) IN
    Ret(FasterTick(d), IF pk \in DOMAIN d.kv THEN d.kv[pk].base ELSE None)

\* take is a read: nothing is deleted.
FASTERValue_take(d, name) ==
    LET pk == SerializeStr(name) IN
    Ret(FasterTick(d), IF pk \in DOMAIN d.kv THEN d.kv[pk].base ELSE None)

FASTERValue_rmw(d, name, modification) ==
    LET pk == SerializeStr(name)
        new_value == IF pk \in DOMAIN d.kv
                     THEN FasterRmw(d.kv[pk].base.val, modification)
                     ELSE modification
    IN  Ret(FasterTick([d EXCEPT !.kv = KvPut(@, pk, Entry(new_value))]), None)

\* --- RocksDBManagedValue (rocksdb: read, then write) -----------------------
RocksDBValue_set(d, name, value) ==
    Ret([d EXCEPT !.kv = KvPut(@, SerializeStr(name), Entry(value))], None)

RocksDBValue_get(d, name) == Ret(d, RocksGet(d.kv, SerializeStr(name)))

RocksDBValue_take(d, name) ==
    Ret([d EXCEPT !.kv = KvDelete(@, SerializeStr(name))],
        RocksGet(d.kv, SerializeStr(name)))

RocksDBValue_rmw(d, name, modification) ==
    LET result == RocksGet(d.kv, SerializeStr(name))
        modified == IF result.some THEN FasterRmw(result.val, modification)
                    ELSE modification
    IN  RocksDBValue_set(d, name, modified)

\* --- RocksDBManagedValue (rocksdbmerge2: merge operator) -------------------
RocksDBMerge2Value_rmw(d, name, modification) ==
    LET pk == SerializeStr(name)
        e == IF pk \in DOMAIN d.kv
             THEN [d.kv[pk] EXCEPT !.ops = Append(@, modification)]
             ELSE [base |-> None, ops |-> <<modification>>, held |-> FALSE]
    IN  Ret([d EXCEPT !.kv = KvPut(@, pk, e)], None)

(***************************************************************************)
(* ManagedCount, one group of operators per backend.  Every operation      *)
(* returns [db, result]; an in-memory-native count is the integer own.     *)
(***************************************************************************)
\* --- InMemoryManagedCount --------------------------------------------------
InMemoryCount_set(d, name, value) ==
    Ret([d EXCEPT !.kv = KvPut(@, name, Entry(value))], 0)

\* get takes the entry out, reads 0 when there is none, and puts the value back
InMemoryCount_get(d, name) ==
    LET value == IF name \in DOMAIN d.kv THEN d.kv[name].base.val ELSE 0
    IN  Ret([d EXCEPT !.kv = KvPut(@, name, Entry(value))], value)

InMemoryCount_increase(d, name, amount) ==
    LET got == InMemoryCount_get(d, name)
    IN  InMemoryCount_set(got.db, name, got.result + amount)

\* Mutant of InMemoryCount_decrease: the amount is added.
InMemoryCount_decrease_adding(d, name, amount) ==
    InMemoryCount_increase(d, name, amount)

InMemoryCount_decrease(d, name, amount) ==
    LET got == InMemoryCount_get(d, name)
    IN  InMemoryCount_set(got.db, name, got.result - amount)

\* --- InMemoryNativeManagedCount --------------------------------------------
InMemoryNativeCount_set(own, value) == OwnRet(value, 0)
InMemoryNativeCount_get(own) == OwnRet(own, own)
InMemoryNativeCount_increase(own, amount) == OwnRet(own + amount, 0)
InMemoryNativeCount_decrease(own, amount) == OwnRet(own - amount, 0)

\* --- FASTERManagedCount ----------------------------------------------------
FASTERCount_set(d, name, value) ==
    Ret(FasterTick([d EXCEPT !.kv = KvPut(@, SerializeStr(name), Entry(value))]), 0)

FASTERCount_get(d, name) ==
    LET pk == SerializeStr(name) IN
    Ret(FasterTick(d), IF pk \in DOMAIN d.kv THEN d.kv[pk].base.val ELSE 0)

FASTERCount_increase(d, name, amount) ==
    Ret(FASTERValue_rmw(d, name, amount).db, 0)

FASTERCount_decrease(d, name, amount) ==
    Ret(FASTERValue_rmw(d, name, -amount).db, 0)

\* --- RocksDBManagedCount ---------------------------------------------------
\* the merge operator the RocksDB backend registers for counts: the sum of the
\* existing value and the operands
merge_numbers(existing_val, operands) ==
    (IF existing_val.some THEN existing_val.val ELSE 0) + SumSeq(operands)

RocksDBCount_merge(d, name, operand) ==
    LET pk == SerializeStr(name)
        e == IF pk \in DOMAIN d.kv
             THEN [d.kv[pk] EXCEPT !.ops = Append(@, operand)]
             ELSE [base |-> None, ops |-> <<operand>>, held |-> FALSE]
    IN  Ret([d EXCEPT !.kv = KvPut(@, pk, e)], 0)

RocksDBCount_set(d, name, value) ==
    Ret([d EXCEPT !.kv = KvPut(@, SerializeStr(name), Entry(value))], 0)

RocksDBCount_get(d, name) ==
    LET pk == SerializeStr(name) IN
    Ret(d, IF pk \notin DOMAIN d.kv THEN 0
           ELSE IF d.kv[pk].ops = <<>> THEN d.kv[pk].base.val
           ELSE merge_numbers(d.kv[pk].base, d.kv[pk].ops))

RocksDBCount_increase(d, name, amount) == RocksDBCount_merge(d, name, amount)
RocksDBCount_decrease(d, name, amount) == RocksDBCount_merge(d, name, -amount)

(***************************************************************************)
(* SpecPrimitives: a caller obtains a primitive under one name from one    *)
(* backend instance, drives it through its API, drops it and obtains it    *)
(* again.  Every call returns [db, own, result]: the backend instance, the *)
(* content of the primitive object, and what the call returned.            *)
(***************************************************************************)
MaxCalls == 4        \* calls made in one run
MaxObjects == 2      \* primitive objects obtained, one after the other

PrimitiveKinds == {"value", "count", "map"}
ValueBackends == {"in_memory", "in_memory_native", "faster", "rocksdb", "rocksdbmerge2"}
ManagedCountBackends == {"in_memory", "in_memory_native", "faster", "rocksdb"}
PrimitiveBackends(kind) ==
    CASE kind = "value" -> ValueBackends
      [] kind = "count" -> ManagedCountBackends
      [] kind = "map"   -> Backends

PRet(d, o, r) == [db |-> d, own |-> o, result |-> r]
OnBackend(own, r) == PRet(r.db, own, r.result)
OnObject(d, r) == PRet(d, r.own, r.result)

\* StateBackend::get_managed_value / get_managed_count / get_managed_map: what
\* the new object holds.  Only the in-memory-native primitives hold content.
NewPrimitive(kind) ==
    IF backend # "in_memory_native" THEN None
    ELSE CASE kind = "value" -> None
           [] kind = "count" -> 0
           [] kind = "map"   -> NewBackend

ValueSet(d, own, name, value) ==
    CASE backend = "in_memory"        -> OnBackend(own, InMemoryValue_set(d, name, value))
      [] backend = "in_memory_native" -> OnObject(d, InMemoryNativeValue_set(own, value))
      [] backend = "faster"           -> OnBackend(own, FASTERValue_set(d, name, value))
      [] backend \in {"rocksdb", "rocksdbmerge2"}
                                      -> OnBackend(own, RocksDBValue_set(d, name, value))

ValueGet(d, own, name) ==
    CASE backend = "in_memory"        -> OnBackend(own, InMemoryValue_get(d, name))
      [] backend = "in_memory_native" -> OnObject(d, InMemoryNativeValue_get(own))
      [] backend = "faster"           -> OnBackend(own, FASTERValue_get(d, name))
      [] backend \in {"rocksdb", "rocksdbmerge2"}
                                      -> OnBackend(own, RocksDBValue_get(d, name))

ValueTake(d, own, name) ==
    CASE backend = "in_memory"        -> OnBackend(own, InMemoryValue_take(d, name))
      [] backend = "in_memory_native" -> OnObject(d, InMemoryNativeValue_take(own))
      [] backend = "faster"           -> OnBackend(own, FASTERValue_take(d, name))
      [] backend \in {"rocksdb", "rocksdbmerge2"}
                                      -> OnBackend(own, RocksDBValue_take(d, name))

ValueRmw(d, own, name, modification) ==
    CASE backend = "in_memory"        -> OnBackend(own, InMemoryValue_rmw(d, name, modification))
      [] backend = "in_memory_native" -> OnObject(d, InMemoryNativeValue_rmw(own, modification))
      [] backend = "faster"           -> OnBackend(own, FASTERValue_rmw(d, name, modification))
      [] backend = "rocksdb"          -> OnBackend(own, RocksDBValue_rmw(d, name, modification))
      [] backend = "rocksdbmerge2"    -> OnBackend(own, RocksDBMerge2Value_rmw(d, name, modification))

\* The caller keeps the Rc<V> that ManagedValue::get returned.
KeepValue(r, name) ==
    IF ~r.result.some THEN r
    ELSE IF backend = "in_memory"
    THEN [r EXCEPT !.db.kv[name].held = TRUE]
    ELSE IF backend = "in_memory_native"
    THEN [r EXCEPT !.own.val.held = TRUE]
    ELSE r

CountSet(d, own, name, value) ==
    CASE backend = "in_memory"        -> OnBackend(own, InMemoryCount_set(d, name, value))
      [] backend = "in_memory_native" -> OnObject(d, InMemoryNativeCount_set(own, value))
      [] backend = "faster"           -> OnBackend(own, FASTERCount_set(d, name, value))
      [] backend = "rocksdb"          -> OnBackend(own, RocksDBCount_set(d, name, value))

CountGet(d, own, name) ==
    CASE backend = "in_memory"        -> OnBackend(own, InMemoryCount_get(d, name))
      [] backend = "in_memory_native" -> OnObject(d, InMemoryNativeCount_get(own))
      [] backend = "faster"           -> OnBackend(own, FASTERCount_get(d, name))
      [] backend = "rocksdb"          -> OnBackend(own, RocksDBCount_get(d, name))

CountIncrease(d, own, name, amount) ==
    CASE backend = "in_memory"        -> OnBackend(own, InMemoryCount_increase(d, name, amount))
      [] backend = "in_memory_native" -> OnObject(d, InMemoryNativeCount_increase(own, amount))
      [] backend = "faster"           -> OnBackend(own, FASTERCount_increase(d, name, amount))
      [] backend = "rocksdb"          -> OnBackend(own, RocksDBCount_increase(d, name, amount))

CountDecrease(d, own, name, amount) ==
    CASE backend = "in_memory"        -> OnBackend(own, InMemoryCount_decrease(d, name, amount))
      [] backend = "in_memory_native" -> OnObject(d, InMemoryNativeCount_decrease(own, amount))
      [] backend = "faster"           -> OnBackend(own, FASTERCount_decrease(d, name, amount))
      [] backend = "rocksdb"          -> OnBackend(own, RocksDBCount_decrease(d, name, amount))

\* A map object of the in-memory-native backend works on its own HashMap, the
\* maps of the other backends on the backend instance.
PMapInsert(d, own, name, k, v) ==
    IF backend = "in_memory_native"
    THEN LET r == MapInsert(own, name, k, v) IN PRet(d, r.db, r.result)
    ELSE OnBackend(own, MapInsert(d, name, k, v))

PMapGet(d, own, name, k) ==
    IF backend = "in_memory_native"
    THEN LET r == MapGet(own, name, k) IN PRet(d, r.db, r.result)
    ELSE OnBackend(own, MapGet(d, name, k))

PrimitiveName == MapName
PrimitiveKey == <<1>>
Amounts == {1, 2}

\* history: the last call, the one before it and the one before that
Call(op, arg, result) ==
    [op |-> op, arg |-> arg, result |-> result, n |-> lastOp.n + 1,
     prev |-> [op |-> lastOp.op, arg |-> lastOp.arg, result |-> lastOp.result],
     prev2 |-> lastOp.prev]
NoCall == [op |-> "none", arg |-> 0, result |-> None]

InitPrimitives ==
    /\ primitive \in {[kind |-> kind, alive |-> FALSE, gen |-> 0, own |-> None] :
                         kind \in PrimitiveKinds}
    /\ backend \in PrimitiveBackends(primitive.kind)
    /\ valueKind = "int"
    /\ db = NewBackend
    /\ written = [kind |-> "fresh", val |-> 0, by |-> 0]
    /\ lastOp = [op |-> "new", arg |-> 0, result |-> None, n |-> 0,
                 prev |-> NoCall, prev2 |-> NoCall]
    /\ InitOperatorIdle

Calling(kind) == primitive.kind = kind /\ primitive.alive /\ lastOp.n < MaxCalls

\* the outcome r of a call on the primitive
Outcome(r) ==
    /\ db' = r.db
    /\ primitive' = [primitive EXCEPT !.own = r.own]

\* backend.get_managed_value(name) / get_managed_count(name) / get_managed_map(name)
GetManaged ==
    /\ ~primitive.alive
    /\ primitive.gen < MaxObjects
    /\ primitive' = [primitive EXCEPT !.alive = TRUE, !.gen = @ + 1,
                                      !.own = NewPrimitive(primitive.kind)]
    /\ lastOp' = [Call("get_managed", 0, None) EXCEPT !.n = lastOp.n]
    /\ UNCHANGED <<backend, valueKind, db, written, engVars>>

\* the primitive object goes out of scope
DropPrimitive ==
    /\ primitive.alive
    /\ primitive.gen < MaxObjects
    /\ primitive' = [primitive EXCEPT !.alive = FALSE, !.own = None]
    /\ lastOp' = [Call("drop", 0, None) EXCEPT !.n = lastOp.n]
    /\ UNCHANGED <<backend, valueKind, db, written, engVars>>

\* managed_value.set(v)
DoValueSet(v) ==
    /\ Calling("value")
    /\ Outcome(ValueSet(db, primitive.own, PrimitiveName, v))
    /\ written' = [kind |-> "set", val |-> v, by |-> primitive.gen]
    /\ lastOp' = Call("set", v, None)
    /\ UNCHANGED <<backend, valueKind, engVars>>

\* managed_value.get(); the caller keeps the returned Rc or drops it at once
DoValueGet(keep) ==
    /\ Calling("value")
    /\ LET r == ValueGet(db, primitive.own, PrimitiveName) IN
        /\ Outcome(IF keep THEN KeepValue(r, PrimitiveName) ELSE r)
        /\ lastOp' = Call("get", keep, r.result)
    /\ UNCHANGED <<backend, valueKind, written, engVars>>

\* managed_value.take()
DoValueTake ==
    /\ Calling("value")
    /\ LET r == ValueTake(db, primitive.own, PrimitiveName) IN
        /\ Outcome(r)
        /\ lastOp' = Call("take", 0, r.result)
    /\ written' = [kind |-> "other", val |-> 0, by |-> primitive.gen]
    /\ UNCHANGED <<backend, valueKind, engVars>>

\* managed_value.rmw(m)
DoValueRmw(m) ==
    /\ Calling("value")
    /\ Outcome(ValueRmw(db, primitive.own, PrimitiveName, m))
    /\ written' = [kind |-> "other", val |-> 0, by |-> primitive.gen]
    /\ lastOp' = Call("rmw", m, None)
    /\ UNCHANGED <<backend, valueKind, engVars>>

\* managed_count.set(v): written follows the number the calls so far add up to
DoCountSet(v) ==
    /\ Calling("count")
    /\ Outcome(CountSet(db, primitive.own, PrimitiveName, v))
    /\ written' = [kind |-> "count", val |-> v, by |-> primitive.gen]
    /\ lastOp' = Call("set", v, None)
    /\ UNCHANGED <<backend, valueKind, engVars>>

\* managed_count.increase(a)
DoCountIncrease(a) ==
    /\ Calling("count")
    /\ Outcome(CountIncrease(db, primitive.own, PrimitiveName, a))
    /\ written' = [kind |-> "count", val |-> written.val + a, by |-> primitive.gen]
    /\ lastOp' = Call("increase", a, None)
    /\ UNCHANGED <<backend, valueKind, engVars>>

\* managed_count.decrease(a)
DoCountDecrease(a) ==
    /\ Calling("count")
    /\ Outcome(CountDecrease(db, primitive.own, PrimitiveName, a))
    /\ written' = [kind |-> "count", val |-> written.val - a, by |-> primitive.gen]
    /\ lastOp' = Call("decrease", a, None)
    /\ UNCHANGED <<backend, valueKind, engVars>>

\* managed_count.get()
DoCountGet ==
    /\ Calling("count")
    /\ LET r == CountGet(db, primitive.own, PrimitiveName) IN
        /\ Outcome(r)
        /\ lastOp' = Call("get", 0, r.result)
    /\ UNCHANGED <<backend, valueKind, written, engVars>>

\* managed_map.insert(k, v)
DoMapInsert(v) ==
    /\ Calling("map")
    /\ Outcome(PMapInsert(db, primitive.own, PrimitiveName, PrimitiveKey, v))
    /\ written' = [kind |-> "set", val |-> v, by |-> primitive.gen]
    /\ lastOp' = Call("insert", v, None)
    /\ UNCHANGED <<backend, valueKind, engVars>>

\* managed_map.get(&k)
DoMapGet ==
    /\ Calling("map")
    /\ LET r == PMapGet(db, primitive.own, PrimitiveName, PrimitiveKey) IN
        /\ Outcome(r)
        /\ lastOp' = Call("get", FALSE, r.result)
    /\ UNCHANGED <<backend, valueKind, written, engVars>>

NextPrimitives ==
    \/ GetManaged
    \/ DropPrimitive
    \/ \E v \in Amounts : DoValueSet(v)
    \/ \E keep \in BOOLEAN : DoValueGet(keep)
    \/ DoValueTake
    \/ \E m \in Amounts : DoValueRmw(m)
    \/ \E v \in Amounts : DoCountSet(v)
    \/ \E a \in Amounts : DoCountIncrease(a)
    \/ \E a \in Amounts : DoCountDecrease(a)
    \/ DoCountGet
    \/ \E v \in Amounts : DoMapInsert(v)
    \/ DoMapGet

SpecPrimitives == InitPrimitives /\ [][NextPrimitives]_vars

(***************************************************************************)
(* SpecIter: the two maps of keyed_window_3a_rocksdb_count in one RocksDB  *)
(* instance, with integer keys passed through to_be(), and iter(from_key). *)
(***************************************************************************)
MaxKey == 257        \* largest key inserted or iterated from

\* keys on both sides of a byte boundary: 256 is below 1 and 2 when the bytes
\* are compared little-endian
IterKeys == {1, 2, MaxKey - 1}
IterFrom == {0, 1, 2, 3, MaxKey - 1, MaxKey}
IterMaps == {pane_buckets, state_index1}

InitIter ==
    /\ backend = "rocksdb"
    /\ valueKind = "int"
    /\ db = NewBackend
    /\ written = [name \in IterMaps |-> {}]
    /\ lastOp = NoOp
    /\ primitive = NoPrimitive
    /\ InitOperatorIdle

\* managed_map.insert(k.to_be(), v)
IterInsert(name, k, v) ==
    /\ db' = RocksDB_insert_be(db, name, <<k>>, v).db
    /\ written' = [written EXCEPT ![name] = @ \cup {k}]
    /\ lastOp' = [op |-> "insert", name |-> name, key |-> k, result |-> <<>>]
    /\ UNCHANGED <<primitive, backend, valueKind, engVars>>

\* managed_map.iter(k.to_be()), followed by next() until it returns None: the
\* raw keys the iterator yields before it reports the end
IterAll(name, k) ==
    /\ lastOp' = [op |-> "iter", name |-> name, key |-> k,
                  result |-> RocksDB_iter_be(db, name, <<k>>)]
    /\ UNCHANGED <<primitive, backend, valueKind, db, written, engVars>>

NextIter ==
    \/ \E name \in IterMaps : \E k \in IterKeys : IterInsert(name, k, 1)
    \/ \E name \in IterMaps : \E k \in IterFrom : IterAll(name, k)

SpecIter == InitIter /\ [][NextIter]_vars

(***************************************************************************)
(* SpecFaster: the serial numbers and the drain cadence of the FASTER      *)
(* backends.  Every primitive of a backend instance goes through           *)
(* faster_upsert, faster_read and faster_rmw with the shared               *)
(* monotonic_serial_number (db.serial).                                    *)
(***************************************************************************)
MaxOps == 1030       \* operations issued through one backend instance

FasterVariants == {"faster", "faster_node", "faster_in_memory"}

\* Mutant of maybe_refresh_faster: every variant drains like FASTERBackend.
maybe_refresh_faster_alike(monotonic_serial_number) ==
    [refresh |-> monotonic_serial_number % 16 = 0,
     complete_pending |-> monotonic_serial_number % 1024 = 0]

\* maybe_refresh_faster: which of faster.refresh() and
\* faster.complete_pending(true) the operation with this serial number calls
maybe_refresh_faster(monotonic_serial_number) ==
    IF backend = "faster_in_memory"
    THEN [refresh |-> /\ monotonic_serial_number % 1024 # 0
                      /\ monotonic_serial_number % 32 = 0,
          complete_pending |-> monotonic_serial_number % 1024 = 0]
    ELSE [refresh |-> monotonic_serial_number % 16 = 0,
          complete_pending |-> /\ monotonic_serial_number % 16 = 0
                               /\ monotonic_serial_number % 1024 = 0]

\* the physical keys of a map entry and of a count of the same backend instance
FasterKeys == {prefix_key(MapName, <<1>>), SerializeStr(<<99>>)}

\* history: the operations so far, and those since the last refresh / drain
Drained(calls) ==
    [ops |-> written.ops + 1,
     since_refresh |-> IF calls.refresh THEN 0 ELSE written.since_refresh + 1,
     since_drain |-> IF calls.refresh \/ calls.complete_pending THEN 0
                     ELSE written.since_drain + 1]

FasterOp(op, pk, result) ==
    LET old_monotonic_serial_number == db.serial
        calls == maybe_refresh_faster(old_monotonic_serial_number)
    IN  /\ old_monotonic_serial_number <= MaxOps
        /\ lastOp' = [op |-> op, key |-> pk, result |-> result,
                      serial |-> old_monotonic_serial_number,
                      refresh |-> calls.refresh,
                      complete_pending |-> calls.complete_pending]
        /\ written' = Drained(calls)
        /\ UNCHANGED <<primitive, backend, valueKind, engVars>>

InitFaster ==
    /\ backend \in FasterVariants
    /\ valueKind = "int"
    /\ db = NewBackend
    /\ written = [ops |-> 0, since_refresh |-> 0, since_drain |-> 0]
    /\ lastOp = NoOp
    /\ primitive = NoPrimitive
    /\ InitOperatorIdle

\* faster_upsert(faster, key, value, monotonic_serial_number)
faster_upsert(pk, value) ==
    /\ db' = FasterTick([db EXCEPT !.kv = KvPut(@, pk, Entry(value))])
    /\ FasterOp("upsert", pk, None)

\* faster_read(faster, key, monotonic_serial_number)
faster_read(pk) ==
    /\ db' = FasterTick(db)
    /\ FasterOp("read", pk, IF pk \in DOMAIN db.kv THEN db.kv[pk].base ELSE None)

\* faster_rmw(faster, key, modification, monotonic_serial_number)
faster_rmw(pk, modification) ==
    LET new_value == IF pk \in DOMAIN db.kv
                     THEN FasterRmw(db.kv[pk].base.val, modification)
                     ELSE modification
    IN  /\ InRange(new_value)
        /\ db' = FasterTick([db EXCEPT !.kv = KvPut(@, pk, Entry(new_value))])
        /\ FasterOp("rmw", pk, None)

NextFaster ==
    \/ \E pk \in FasterKeys : faster_upsert(pk, 1)
    \/ \E pk \in FasterKeys : faster_read(pk)
    \/ \E pk \in FasterKeys : faster_rmw(pk, 1)

SpecFaster == InitFaster /\ [][NextFaster]_vars

(***************************************************************************)
(* SpecMerge: merge_vectors, the merge operator RocksDBMergeBackend        *)
(* registers, on the bytes the storage engine hands it.  A value is a      *)
(* Vec<(usize, usize)>, written as a sequence of pairs.                    *)
(***************************************************************************)
MaxOperands == 2     \* merge operands handed to one call of the operator

\* bincode::deserialize::<u64>: eight bytes, least significant first
DeserializeU64(bytes) ==
    bytes[1] + 256 * bytes[2] + 65536 * bytes[3] + 16777216 * bytes[4]

\* bincode::serialize(&Vec<(usize, usize)>): the length, then the pairs
RECURSIVE SerializePairs(_)
SerializePairs(v) ==
    IF v = <<>> THEN <<>>
    ELSE SerializeU64(v[1][1]) \o SerializeU64(v[1][2]) \o SerializePairs(Tail(v))

SerializeVec(v) == SerializeU64(Len(v)) \o SerializePairs(v)

\* bincode::deserialize::<Vec<(usize, usize)>>
DeserializeVec(bytes) ==
    [m \in 1..DeserializeU64(SubSeq(bytes, 1, 8)) |->
        <<DeserializeU64(SubSeq(bytes, 16 * m - 7, 16 * m)),
          DeserializeU64(SubSeq(bytes, 16 * m + 1, 16 * m + 8))>>]

\* result.extend(..) for every operand, in the order of the iterator
RECURSIVE ExtendAll(_, _)
ExtendAll(result, operands) ==
    IF operands = <<>> THEN result
    ELSE ExtendAll(result \o DeserializeVec(operands[1]), Tail(operands))

\* Mutant of merge_vectors_bytes: the existing value is appended last.
merge_vectors_existing_last(existing_val, operands) ==
    Some(SerializeVec(ExtendAll(<<>>, operands)
                      \o (IF existing_val.some THEN DeserializeVec(existing_val.val)
                          ELSE <<>>)))

\* merge_vectors(new_key, existing_val, operands) on serialised values
merge_vectors_bytes(existing_val, operands) ==
    LET result == IF existing_val.some THEN DeserializeVec(existing_val.val) ELSE <<>>
    IN  Some(SerializeVec(ExtendAll(result, operands)))

MergePairs == {<<1, 2>>, <<300, 4>>}
MergeVecs == UNION {[1..n -> MergePairs] : n \in 0..MaxLen}
MergeOperands == UNION {[1..n -> MergeVecs] : n \in 0..MaxOperands}

\* no existing value, an empty one, or one of a single pair
MergeExisting == {None} \cup {Some(v) : v \in {<<>>} \cup {<<p>> : p \in MergePairs}}

\* the engine picks an existing value, the operands and how many of them a
\* first (partial) merge takes
InitMerge ==
    /\ backend = "rocksdbmerge"
    /\ valueKind = "vec"
    /\ db = NewBackend
    /\ written = Fresh
    /\ \E existing \in MergeExisting :
       \E operands \in MergeOperands :
       \E split \in 0..Len(operands) :
          lastOp = [op |-> "operands", existing_val |-> existing,
                    operands |-> operands, split |-> split]
    /\ primitive = NoPrimitive
    /\ InitOperatorIdle

Serialised(vecs) == [m \in 1..Len(vecs) |-> SerializeVec(vecs[m])]
SerialisedOption(v) == IF v.some THEN Some(SerializeVec(v.val)) ELSE None

\* the engine calls the operator once on all operands (full merge), and once on
\* the first split operands and then on the rest with that result as the
\* existing value (partial merge followed by a full merge)
CallMergeVectors ==
    /\ lastOp.op = "operands"
    /\ LET existing == SerialisedOption(lastOp.existing_val)
           operands == Serialised(lastOp.operands)
           first == merge_vectors_bytes(existing, SubSeq(operands, 1, lastOp.split))
       IN  lastOp' = [op |-> "merge_vectors", existing_val |-> lastOp.existing_val,
                      operands |-> lastOp.operands, split |-> lastOp.split,
                      result |-> merge_vectors_bytes(existing, operands),
                      staged |-> merge_vectors_bytes(
                                     first, SubSeq(operands, lastOp.split + 1,
                                                   Len(operands)))]
    /\ UNCHANGED <<primitive, backend, valueKind, db, written, engVars>>

NextMerge == CallMergeVectors

SpecMerge == InitMerge /\ [][NextMerge]_vars

(***************************************************************************)
(* SpecEquiv: one caller drives the four managed maps of integer values    *)
(* in lockstep, with the same insert, rmw and get calls on each.  db maps  *)
(* a backend to its instance, lastOp.result a backend to what it returned. *)
(***************************************************************************)
EquivBackends == {"in_memory", "rocksdb", "rocksdbmerge", "faster"}

InsertOn(b, d, k, v) ==
    CASE b = "in_memory"    -> InMemory_insert(d, MapName, k, v)
      [] b = "rocksdb"      -> RocksDB_insert(d, MapName, k, v)
      [] b = "rocksdbmerge" -> RocksDBMerge_insert(d, MapName, k, v)
      [] b = "faster"       -> FASTER_insert(d, MapName, k, v)

GetOn(b, d, k) ==
    CASE b = "in_memory"    -> InMemory_get(d, MapName, k)
      [] b = "rocksdb"      -> RocksDB_get(d, MapName, k)
      [] b = "rocksdbmerge" -> RocksDBMerge_get(d, MapName, k)
      [] b = "faster"       -> FASTER_get(d, MapName, k)

RmwOn(b, d, k, modification) ==
    CASE b = "in_memory"    -> InMemory_rmw(d, MapName, k, modification)
      [] b = "rocksdb"      -> RocksDB_rmw(d, MapName, k, modification)
      [] b = "rocksdbmerge" -> RocksDBMerge_rmw(d, MapName, k, modification)
      [] b = "faster"       -> FASTER_rmw(d, MapName, k, modification)

\* the in-memory map hands out the stored Rc itself, the others a fresh copy
KeepOn(b, d, k) ==
    IF b = "in_memory" /\ <<MapName, k>> \in DOMAIN d.kv
    THEN [d EXCEPT !.kv[<<MapName, k>>].held = TRUE]
    ELSE d

\* the calls made so far, counted by FASTER's serial number
EquivBudget == db["faster"].serial <= MaxSerial

InitEquiv ==
    /\ backend = "all"
    /\ valueKind = "int"
    /\ db = [b \in EquivBackends |-> NewBackend]
    /\ written = [k \in MapKeys |-> Fresh]
    /\ lastOp = NoOp
    /\ primitive = NoPrimitive
    /\ InitOperatorIdle

\* insert(k, v) on every map
EquivInsert(k, v) ==
    /\ EquivBudget
    /\ db' = [b \in EquivBackends |-> InsertOn(b, db[b], k, v).db]
    /\ lastOp' = [op |-> "insert", key |-> k, arg |-> v, kept |-> FALSE,
                  result |-> [b \in EquivBackends |-> None]]
    /\ UNCHANGED <<primitive, backend, valueKind, written, engVars>>

\* rmw(k, modification) on every map
EquivRmw(k, modification) ==
    /\ EquivBudget
    /\ LET r == [b \in EquivBackends |-> RmwOn(b, db[b], k, modification).db] IN
        /\ \A b \in EquivBackends : GetOn(b, r[b], k).result.val <= MaxVal
        /\ db' = r
    /\ lastOp' = [op |-> "rmw", key |-> k, arg |-> modification, kept |-> FALSE,
                  result |-> [b \in EquivBackends |-> None]]
    /\ UNCHANGED <<primitive, backend, valueKind, written, engVars>>

\* get(&k) on every map; the caller keeps the returned Rcs or drops them
EquivGet(k, keep) ==
    /\ EquivBudget
    /\ LET r == [b \in EquivBackends |-> GetOn(b, db[b], k)] IN
        /\ db' = [b \in EquivBackends |->
                     IF keep THEN KeepOn(b, r[b].db, k) ELSE r[b].db]
        /\ lastOp' = [op |-> "get", key |-> k, arg |-> 0, kept |-> keep,
                      result |-> [b \in EquivBackends |-> r[b].result]]
    /\ UNCHANGED <<primitive, backend, valueKind, written, engVars>>

NextEquiv ==
    \/ \E k \in MapKeys : \E v \in {1, 2} : EquivInsert(k, v)
    \/ \E k \in MapKeys : \E d \in {1, 2} : EquivRmw(k, d)
    \/ \E k \in MapKeys : \E keep \in BOOLEAN : EquivGet(k, keep)

SpecEquiv == InitEquiv /\ [][NextEquiv]_vars

(***************************************************************************)
(* SpecLag: the keyed engine with fewer records, for the claims about the  *)
(* slide cursor and the pending-fire set.                                  *)
(***************************************************************************)
MaxLagEvents == 1

NextLag ==
    \/ \E t \in 0..MaxTime : \E data \in Batches :
          /\ Len(ingested) + Len(data) <= MaxLagEvents
          /\ KeyedBatch(t, data)
    \/ \E f \in (1..(MaxTime + 1)) \cup {EndOfStream} : Advance(f)
    \/ KeyedNotify

SpecLag == InitKeyed /\ [][NextLag]_vars

(***************************************************************************)
(* SpecIndex: the keyed engine with slides of one second, for the claim    *)
(* about the slice index.                                                  *)
(***************************************************************************)
InitIndex == InitGlobal({"keyed_window_3_faster_count"}, {OneSecond}, CountBackends)

MaxIndexEvents == 2

NextIndex ==
    \/ \E t \in 0..MaxTime : \E data \in Batches :
          /\ Len(ingested) + Len(data) <= MaxIndexEvents
          /\ KeyedBatch(t, data)
    \/ \E f \in (1..(MaxTime + 1)) \cup {EndOfStream} : Advance(f)
    \/ KeyedNotify

SpecIndex == InitIndex /\ [][NextIndex]_vars

(***************************************************************************)
(* SpecNext: one LSM-backed map under some name; a caller inserts keys,    *)
(* opens an iterator and asks for its next entry.                          *)
(***************************************************************************)
\* RocksDBManagedMap::next (rocksdb): the raw key without its first
\* self.name.len() bytes, deserialised as K
RocksDB_next(name, raw_iter) ==
    IF raw_iter = <<>> THEN None
    ELSE LET raw_key == SubSeq(Head(raw_iter), Len(SerializeStr(name)) + 1,
                               Len(Head(raw_iter)))
         IN  Some(DeserializeU64(raw_key))

\* RocksDBManagedMap::next (rocksdbmerge): the raw key deserialised as K
RocksDBMerge_next(name, raw_iter) ==
    IF raw_iter = <<>> THEN None
    ELSE Some(DeserializeU64(Head(raw_iter)))

\* "", "test" and ".1pane_buckets"
NextMapNames == {<<>>, MapName, pane_buckets}

InitNext ==
    /\ backend \in RocksBackends
    /\ valueKind = "int"
    /\ db = NewBackend
    /\ written \in {[name |-> name, keys |-> {}] : name \in NextMapNames}
    /\ lastOp = NoOp
    /\ primitive = NoPrimitive
    /\ InitOperatorIdle

\* managed_map.insert(k, v)
NextInsert(k, v) ==
    /\ db' = MapInsert(db, written.name, <<k>>, v).db
    /\ written' = [written EXCEPT !.keys = @ \cup {k}]
    /\ lastOp' = [op |-> "insert", key |-> k, raw |-> <<>>, result |-> None]
    /\ UNCHANGED <<primitive, backend, valueKind, engVars>>

\* let iter = managed_map.iter(k); managed_map.next(iter)
NextOfIter(k) ==
    /\ LET iter == RocksIterator(db.kv, prefix_key(written.name, <<k>>)) IN
       lastOp' = [op |-> "next", key |-> k,
                  raw |-> IF iter = <<>> THEN <<>> ELSE Head(iter),
                  result |-> IF backend = "rocksdb"
                             THEN RocksDB_next(written.name, iter)
                             ELSE RocksDBMerge_next(written.name, iter)]
    /\ UNCHANGED <<primitive, backend, valueKind, db, written, engVars>>

NextNext ==
    \/ \E k \in IterKeys : NextInsert(k, 1)
    \/ \E k \in IterFrom : NextOfIter(k)

SpecNext == InitNext /\ [][NextNext]_vars

(***************************************************************************)
(* The timestamp-indexed rank engine: window_1_faster_rank.                *)
(***************************************************************************)
\* "slide_index": slide end timestamp -> event timestamps
slide_index == physical_name(OperatorHandle,
                             <<115, 108, 105, 100, 101, 95, 105, 110, 100, 101, 120>>)
\* "window_contents": event timestamp -> auction id
window_contents == physical_name(OperatorHandle,
                                 <<119, 105, 110, 100, 111, 119, 95, 99, 111, 110, 116,
                                   101, 110, 116, 115>>)

\* for record in buffer.iter() {
\*     window_contents.insert(record.1, record.0);
\*     slide_index.rmw(current_slide, vec![record.1]); }
RECURSIVE IngestContents(_, _, _)
IngestContents(d, current_slide, data) ==
    IF data = <<>> THEN d
    ELSE LET record == Head(data)
             d1 == MapInsert(d, window_contents, <<record[2]>>, record[1]).db
             d2 == MapRmw(d1, slide_index, <<current_slide>>, <<record[2]>>).db
         IN  IngestContents(d2, current_slide, Tail(data))

\* for timestamp in keys.as_ref() { records.push(window_contents.get(timestamp)
\*     .expect("Timestamp must exist")) }: records keeps every Rc<V> it is handed.
RECURSIVE FetchContents(_, _, _)
FetchContents(d, timestamps, records) ==
    IF timestamps = <<>> THEN [db |-> d, records |-> records, ok |-> TRUE]
    ELSE LET k == <<Head(timestamps)>>
             got == MapGet(d, window_contents, k)
         IN  IF ~got.result.some THEN [db |-> got.db, records |-> records, ok |-> FALSE]
             ELSE FetchContents(KeepHandle(got.db, window_contents, k), Tail(timestamps),
                                Append(records, got.result.val))

\* for i in 0..window_slice_count { if let Some(keys) = slide_index.get(..) {..} }
RECURSIVE CollectSlides(_, _, _, _)
CollectSlides(d, time, i, records) ==
    IF i = window_slice_count THEN [db |-> d, records |-> records, ok |-> TRUE]
    ELSE LET got == MapGet(d, slide_index, <<time - window_slide_ns * i>>) IN
         IF got.result.some
         THEN LET f == FetchContents(got.db, got.result.val, records) IN
              IF f.ok THEN CollectSlides(f.db, time, i + 1, f.records) ELSE f
         ELSE CollectSlides(got.db, time, i + 1, records)

\* for timestamp in keys_to_remove { window_contents.remove(&timestamp)
\*     .expect("Timestamp to remove must exist") }
RECURSIVE PurgeContents(_, _)
PurgeContents(d, timestamps) ==
    IF timestamps = <<>> THEN [db |-> d, ok |-> TRUE]
    ELSE LET rem == MapRemove(d, window_contents, <<Head(timestamps)>>) IN
         IF rem.result.some THEN PurgeContents(rem.db, Tail(timestamps))
         ELSE [db |-> rem.db, ok |-> FALSE]

\* the handler returns: records, and the Rc<V> it holds, are dropped
DropRecords(d) ==
    IF backend \in InMemoryBackends
    THEN [d EXCEPT !.kv = [x \in DOMAIN d.kv |-> [d.kv[x] EXCEPT !.held = FALSE]]]
    ELSE d

\* notificator.for_each body of window_1_faster_rank.
\* Returns [db, why, tuples]: why names the panic that ends the handler, if any.
CloseWindow(d, time) ==
    LET r == CollectSlides(d, time, 0, <<>>) IN
    IF ~r.ok THEN [db |-> r.db, why |-> "Timestamp must exist", tuples |-> <<>>]
    ELSE IF r.records = <<>>
    THEN [db |-> r.db, why |-> "index out of bounds", tuples |-> <<>>]
    ELSE LET out == RankTuples(time, r.records)
             rem == MapRemove(r.db, slide_index,
                              <<time - (window_slice_count - 1) * window_slide_ns>>)
         IN  IF ~rem.result.some THEN [db |-> DropRecords(rem.db), why |-> "", tuples |-> out]
             ELSE LET p == PurgeContents(rem.db, rem.result.val) IN
                  IF p.ok THEN [db |-> DropRecords(p.db), why |-> "", tuples |-> out]
                  ELSE [db |-> p.db, why |-> "Timestamp to remove must exist",
                        tuples |-> out]

\* input.for_each(|time, data| ..) of window_1_faster_rank
ContentsBatch(t, data) ==
    /\ aborted = ""
    /\ engine = "window_1_faster_rank"
    /\ t >= frontier
    /\ Len(ingested) + Len(data) <= MaxEvents
    /\ LET current_slide == SlideEnd(t)
           ends == NewWindowEnds(last_slide_seen, current_slide)
       IN  IF ~SlideOrderOk(last_slide_seen, current_slide)
           THEN Abort("assertion failed: last_slide_seen <= current_slide")
           ELSE IF \E j \in 1..Len(ends) : ~CanDelay(t, ends[j])
           THEN Abort("delayed: time not beyond the capability")
           ELSE /\ notificator' = notificator \cup SeqToSet(ends)
                /\ requested' = requested \o ends
                /\ last_slide_seen' = current_slide
                /\ db' = IngestContents(db, current_slide, data)
                /\ ingested' = AddRecords(ingested, data)
                /\ UNCHANGED <<primitive, backend, valueKind, mapVars, engine, window_slide_ns,
                               window_slice_count, max_window_seen, batch_log, to_fire, frontier, output, aborted,
                               handled>>

\* notificator.for_each(|cap, _, _| ..) of window_1_faster_rank
ContentsNotify ==
    /\ aborted = ""
    /\ engine = "window_1_faster_rank"
    /\ notificator # {}
    /\ LET time == MinOf(notificator)
           r == CloseWindow(db, time)
       IN  /\ time < frontier
           /\ notificator' = notificator \ {time}
           /\ db' = r.db
           /\ output' = output \o r.tuples
           /\ aborted' = r.why
           /\ handled' = Append(handled,
                  [time |-> time, ok |-> r.why = "", tuples |-> r.tuples,
                   window |-> KeysIn(ingested, time - window_slide_ns * window_slice_count,
                                     time)])
    /\ UNCHANGED <<primitive, backend, valueKind, mapVars, engine, window_slide_ns,
                   window_slice_count, max_window_seen, batch_log, last_slide_seen, to_fire, frontier, ingested,
                   requested>>

NextContents ==
    \/ \E t \in 0..MaxTime : \E data \in Batches : ContentsBatch(t, data)
    \/ \E f \in (1..(MaxTime + 1)) \cup {EndOfStream} : Advance(f)
    \/ ContentsNotify

SpecContents == InitGlobal({"window_1_faster_rank"}, {2}, CountBackends)
                    /\ [][NextContents]_vars

(***************************************************************************)
(* window_1_rocksdb: the window contents in the sorted store, between two  *)
(* marker records.                                                         *)
(***************************************************************************)
\* for sl in (start..end).step_by(window_slide_ns) {
\*     window_contents.insert((sl - window_slide_ns).to_be(), 0);
\*     window_contents.insert(window_end.to_be(), 0); }
RECURSIVE InsertMargins(_, _)
InsertMargins(d, sls) ==
    IF sls = <<>> THEN d
    ELSE LET sl == Head(sls)
             d1 == RocksDB_insert_be(d, window_contents, <<sl - window_slide_ns>>, 0).db
             d2 == RocksDB_insert_be(d1, window_contents, <<WindowEndOf(sl)>>, 0).db
         IN  InsertMargins(d2, Tail(sls))

\* for record in buffer.iter() { window_contents.insert(key.to_be(), auction_id) }
RECURSIVE InsertContents(_, _)
InsertContents(d, data) ==
    IF data = <<>> THEN d
    ELSE InsertContents(RocksDB_insert_be(d, window_contents, <<Head(data)[2]>>,
                                          Head(data)[1]).db,
                        Tail(data))

\* for (ser_key, ser_value) in window_iter { .. }: the records given and the
\* timestamps to delete; ok is FALSE when assert!(timestamp < *window_end) fails
RECURSIVE ScanWindow(_, _, _, _, _)
ScanWindow(d, window_iter, window_end, out, to_delete) ==
    IF window_iter = <<>> THEN [out |-> out, to_delete |-> to_delete, ok |-> TRUE]
    ELSE LET ser_key == Head(window_iter)
             timestamp == DeserializeBe(KeyBody(ser_key,
                                                get_key_prefix_length(window_contents)))
             auction_id == RocksGet(d.kv, ser_key).val
             first_slide_end == window_end - window_slide_ns * window_slice_count
                                    + window_slide_ns
         IN  IF timestamp = window_end
             THEN [out |-> out, to_delete |-> to_delete, ok |-> TRUE]
             ELSE IF ~(timestamp < window_end)
             THEN [out |-> out, to_delete |-> to_delete, ok |-> FALSE]
             ELSE ScanWindow(d, Tail(window_iter), window_end,
                             Append(out, <<timestamp, auction_id>>),
                             IF timestamp < first_slide_end
                             THEN Append(to_delete, timestamp) ELSE to_delete)

\* for ts in to_delete { window_contents.remove(&ts.to_be())
\*     .expect("Record to remove must exist") }
RECURSIVE PurgeRecords(_, _)
PurgeRecords(d, to_delete) ==
    IF to_delete = <<>> THEN [db |-> d, ok |-> TRUE]
    ELSE LET rem == RocksDB_remove_be(d, window_contents, <<Head(to_delete)>>) IN
         IF rem.result.some THEN PurgeRecords(rem.db, Tail(to_delete))
         ELSE [db |-> rem.db, ok |-> FALSE]

\* notificator.for_each body of window_1_rocksdb
EmitWindow(d, window_end) ==
    LET window_start == window_end - window_slide_ns * window_slice_count
        all == RocksDB_iter_be(d, window_contents, <<window_start>>)
        \* let _ = window_iter.next()
        window_iter == IF all = <<>> THEN <<>> ELSE Tail(all)
        s == ScanWindow(d, window_iter, window_end, <<>>, <<window_start>>)
    IN  IF ~s.ok
        THEN [db |-> d, why |-> "assertion failed: timestamp < *window_end",
              tuples |-> s.out]
        ELSE LET p == PurgeRecords(d, s.to_delete) IN
             [db |-> p.db, why |-> IF p.ok THEN "" ELSE "Record to remove must exist",
              tuples |-> s.out]

\* input.for_each(|time, data| ..) of window_1_rocksdb
MarginsBatch(t, data) ==
    /\ aborted = ""
    /\ engine = "window_1_rocksdb"
    /\ t >= frontier
    /\ Len(ingested) + Len(data) <= MaxEvents
    /\ LET current_slide == SlideEnd(t)
           sls == NewSlides(last_slide_seen, current_slide)
           ends == NewWindowEnds(last_slide_seen, current_slide)
       IN  IF ~SlideOrderOk(last_slide_seen, current_slide)
           THEN Abort("assertion failed: last_slide_seen <= current_slide")
           ELSE IF \E j \in 1..Len(ends) : ~CanDelay(t, ends[j])
           THEN Abort("delayed: time not beyond the capability")
           ELSE /\ notificator' = notificator \cup SeqToSet(ends)
                /\ requested' = requested \o ends
                /\ last_slide_seen' = current_slide
                /\ db' = InsertContents(InsertMargins(db, sls), data)
                /\ ingested' = AddRecords(ingested, data)
                /\ UNCHANGED <<primitive, backend, valueKind, mapVars, engine, window_slide_ns,
                               window_slice_count, max_window_seen, batch_log, to_fire, frontier, output, aborted,
                               handled>>

\* the ingested records with timestamp in [lo, hi), as (timestamp, auction)
RecordsIn(log, lo, hi) ==
    LET w == SelectSeq(log, LAMBDA r : lo <= r[2] /\ r[2] < hi)
    IN  [m \in 1..Len(w) |-> <<w[m][2], w[m][1]>>]

\* notificator.for_each(|cap, _, _| ..) of window_1_rocksdb
MarginsNotify ==
    /\ aborted = ""
    /\ engine = "window_1_rocksdb"
    /\ notificator # {}
    /\ LET time == MinOf(notificator)
           r == EmitWindow(db, time)
       IN  /\ time < frontier
           /\ notificator' = notificator \ {time}
           /\ db' = r.db
           /\ output' = output \o r.tuples
           /\ aborted' = r.why
           /\ handled' = Append(handled,
                  [time |-> time, ok |-> r.why = "", tuples |-> r.tuples,
                   window |-> RecordsIn(ingested,
                                        time - window_slide_ns * window_slice_count, time)])
    /\ UNCHANGED <<primitive, backend, valueKind, mapVars, engine, window_slide_ns,
                   window_slice_count, max_window_seen, batch_log, last_slide_seen, to_fire, frontier, ingested,
                   requested>>

NextMargins ==
    \/ \E t \in 0..MaxTime : \E data \in Batches : MarginsBatch(t, data)
    \/ \E f \in (1..(MaxTime + 1)) \cup {EndOfStream} : Advance(f)
    \/ MarginsNotify

SpecMargins == InitGlobal({"window_1_rocksdb"}, {2}, {"rocksdb"}) /\ [][NextMargins]_vars

(***************************************************************************)
(* window_3b_rocksdb: panes initialised ahead of the records merged into   *)
(* them.                                                                   *)
(***************************************************************************)
MaxBatches == 2      \* batches of one run of window_3b_rocksdb

\* if max_window_seen <= current_slide { for window_start in
\*     (max_window_seen..end).step_by(window_slide_ns) {..} }: the keys initialised
NewPanes(max_seen, current_slide) ==
    IF max_seen <= current_slide
    THEN StepBy(max_seen, current_slide + window_slide_ns, window_slide_ns)
    ELSE <<>>

\* (a variant that never moves the cursor)
NextMaxWindow_stuck(max_seen, current_slide) == max_seen

\* max_window_seen = end
NextMaxWindow(max_seen, current_slide) ==
    IF max_seen <= current_slide THEN current_slide + window_slide_ns ELSE max_seen

\* pane_buckets.insert(window_start.to_be(), vec![])
RECURSIVE InitPanes(_, _)
InitPanes(d, window_starts) ==
    IF window_starts = <<>> THEN d
    ELSE InitPanes(RocksDB_insert_be(d, pane_buckets, <<Head(window_starts)>>, <<>>).db,
                   Tail(window_starts))

\* for record in buffer.iter() { pane_buckets.rmw(pane.to_be(), vec![*record]) }
RECURSIVE MergeRecords(_, _)
MergeRecords(d, data) ==
    IF data = <<>> THEN d
    ELSE MergeRecords(RocksDB_rmw_be(d, pane_buckets, <<SlideEnd(Head(data)[2])>>,
                                     <<Head(data)>>).db,
                      Tail(data))

\* for (ser_key, ser_value) in window_iter { .. }: the records of the panes
\* up to window_end
RECURSIVE ScanPanes(_, _, _, _)
ScanPanes(d, window_iter, window_end, out) ==
    IF window_iter = <<>> THEN out
    ELSE LET ser_key == Head(window_iter)
             timestamp == DeserializeBe(KeyBody(ser_key,
                                                get_key_prefix_length(pane_buckets)))
             records == RocksGet(d.kv, ser_key).val
         IN  IF timestamp > window_end THEN out
             ELSE ScanPanes(d, Tail(window_iter), window_end, out \o records)

\* notificator.for_each body of window_3b_rocksdb
EmitPanes(d, window_end) ==
    LET window_start == window_end - window_slide_ns * window_slice_count
        first_pane_end == window_start + window_slide_ns
        all == RocksDB_iter_be(d, pane_buckets, <<window_start>>)
        \* let _ = window_iter.next()
        window_iter == IF all = <<>> THEN <<>> ELSE Tail(all)
        out == ScanPanes(d, window_iter, window_end, <<>>)
        rem == RocksDB_remove_be(d, pane_buckets, <<first_pane_end>>)
    IN  [db |-> rem.db, why |-> IF rem.result.some THEN "" ELSE "Pane to remove must exist",
         tuples |-> out]

\* input.for_each(|time, data| ..) of window_3b_rocksdb
Batch3b(t, data) ==
    /\ aborted = ""
    /\ engine = "window_3b_rocksdb"
    /\ t >= frontier
    /\ Len(ingested) + Len(data) <= MaxEvents
    /\ Len(batch_log) < MaxBatches
    /\ LET current_slide == SlideEnd(t)
           ends == NewWindowEnds(last_slide_seen, current_slide)
           window_starts == NewPanes(max_window_seen, current_slide)
       IN  IF ~SlideOrderOk(last_slide_seen, current_slide)
           THEN Abort("assertion failed: last_slide_seen <= current_slide")
           ELSE IF \E j \in 1..Len(ends) : ~CanDelay(t, ends[j])
           THEN Abort("delayed: time not beyond the capability")
           ELSE /\ notificator' = notificator \cup SeqToSet(ends)
                /\ requested' = requested \o ends
                /\ last_slide_seen' = current_slide
                /\ max_window_seen' = NextMaxWindow(max_window_seen, current_slide)
                /\ db' = MergeRecords(InitPanes(db, window_starts), data)
                /\ ingested' = AddRecords(ingested, data)
                /\ batch_log' = Append(batch_log,
                                       [time |-> t, data |-> data,
                                        initialised |-> window_starts])
                /\ UNCHANGED <<primitive, backend, valueKind, mapVars, engine, window_slide_ns,
                               window_slice_count, to_fire, frontier, output, aborted,
                               handled>>

\* notificator.for_each(|cap, _, _| ..) of window_3b_rocksdb
Notify3b ==
    /\ aborted = ""
    /\ engine = "window_3b_rocksdb"
    /\ notificator # {}
    /\ LET time == MinOf(notificator)
           r == EmitPanes(db, time)
       IN  /\ time < frontier
           /\ notificator' = notificator \ {time}
           /\ db' = r.db
           /\ output' = output \o r.tuples
           /\ aborted' = r.why
           /\ handled' = Append(handled,
                                [time |-> time, ok |-> r.why = "", tuples |-> r.tuples])
    /\ UNCHANGED <<primitive, backend, valueKind, mapVars, engine, window_slide_ns,
                   window_slice_count, max_window_seen, batch_log, last_slide_seen, to_fire,
                   frontier, ingested, requested>>

Next3b ==
    \/ \E t \in 0..MaxTime : \E data \in Batches : Batch3b(t, data)
    \/ \E f \in (1..(MaxTime + 1)) \cup {EndOfStream} : Advance(f)
    \/ Notify3b

Spec3b == InitGlobal({"window_3b_rocksdb"}, {2}, {"rocksdb"}) /\ [][Next3b]_vars

(***************************************************************************)
(* Claims about the global pane engine.                                    *)
(***************************************************************************)
NoDuplicates(q) == \A i, j \in 1..Len(q) : i # j => q[i] # q[j]
HandledTimes == [j \in 1..Len(handled) |-> handled[j].time]
RECURSIVE Flatten(_)
Flatten(q) == IF q = <<>> THEN <<>> ELSE q[1] \o Flatten(Tail(q))
Emitted == Flatten([j \in 1..Len(handled) |-> handled[j].tuples])
FirstPane(time) == time - window_slide_ns * (window_slice_count - 1)

C2_RequestedOnce == NoDuplicates(requested) /\ NoDuplicates(HandledTimes)

\* a batch in the first slide, its window handled, then a batch two slides on
C2_Witness ==
    /\ engine = "window_3_faster_rank"
    /\ window_slide_ns = 1 /\ window_slice_count = 1
    /\ HandledTimes = <<1>> /\ handled[1].ok
    /\ requested = <<1, 2, 3>>
    /\ notificator = {2, 3}

C9_MissingPanesAreZero ==
    engine = "window_3_faster_count" =>
        \A j \in 1..Len(handled) :
            handled[j].missing # {} =>
                /\ handled[j].ok
                /\ handled[j].tuples = <<(<<handled[j].time, Len(handled[j].window)>>)>>

\* C10: after the notification for W was handled, get on the first pane of the
\* window returns None as long as no later record is ingested into that pane.
C10_FirstPanePurged ==
    \A j \in 1..Len(handled) :
        LET p == FirstPane(handled[j].time) IN
        (handled[j].ok /\ Len(KeysIn(ingested, p - window_slide_ns, p)) = handled[j].first)
            => Peek(db, pane_buckets, <<p>>) = None

\* C3: in keyed_window_3_faster_count the window of a delivered notification
\* is among the windows the handler aggregates, also when windows are pending.
C3_NotifiedWindowFires ==
    engine = "keyed_window_3_faster_count" =>
        \A j \in 1..Len(handled) :
            \E m \in 1..Len(handled[j].windows) : handled[j].windows[m] = handled[j].time

\* C11: once the notification for W has been handled, no later batch adds a
\* record to a pane of the closed window, so its set of events stays as it was
\* (batch times ascending, no record timestamp beyond its batch's time: here
\* slide 1, where the assertion keeps the times ascending, and timestamps 0).
C11_ClosedWindowsStay ==
    (/\ engine = "window_3_faster_count"
     /\ window_slide_ns = 1
     /\ \A m \in 1..Len(ingested) : ingested[m][2] = 0)
        => \A j \in 1..Len(handled) :
               handled[j].ok =>
                   KeysIn(ingested, handled[j].time - window_slide_ns * window_slice_count,
                          handled[j].time) = handled[j].window

AssertionFailed == aborted = "assertion failed: last_slide_seen <= current_slide"

\* C12: last_slide_seen never decreases, and the step in which the assertion
\* last_slide_seen <= current_slide fails changes neither last_slide_seen nor
\* the pane store nor the requested notifications.
C12_SlideCursorMonotone ==
    [][/\ last_slide_seen' >= last_slide_seen
       /\ AssertionFailed' => UNCHANGED <<last_slide_seen, db, notificator, requested>>]_vars

\* a batch of an earlier slide arrives after panes were written and
\* notifications requested, and stops the operator
C12_Witness ==
    /\ engine = "window_3_faster_rank"
    /\ AssertionFailed
    /\ last_slide_seen = 4
    /\ Len(ingested) >= 1
    /\ notificator # {}

\* C13: assign_windows returns, each once, exactly the non-negative multiples
\* w of window_slide with w <= event_time < w + window_size.
C13_AssignWindows ==
    LastIs("assign_windows") =>
        /\ NoDuplicates(lastOp.result)
        /\ SeqToSet(lastOp.result) =
               {w \in 0..lastOp.event_time :
                   /\ w % lastOp.window_slide = 0
                   /\ lastOp.event_time < w + lastOp.window_size}

\* a window size that is no multiple of the slide: the event lies in three
\* windows, and a fourth start within the loop's range is rejected
C13_Witness ==
    /\ LastIs("assign_windows")
    /\ lastOp.event_time = 6 /\ lastOp.window_slide = 2 /\ lastOp.window_size = 5
    /\ lastOp.result = <<6, 4, 2>>

\* the tuples (key, count) of a window holding the keys w (a sorted sequence)
KeyCounts(w) ==
    {<<k, Cardinality({m \in 1..Len(w) : w[m] = k})>> : k \in SeqToSet(w)}

\* C14: in keyed_window_3_faster_count a notification handled with an empty
\* pending-fire set emits exactly one tuple (key, count) for each key with a
\* record in [W - slide*slice_count, W), count being the number of that key's
\* records in the interval, and no tuple for any other key.
C14_KeyedCounts ==
    engine = "keyed_window_3_faster_count" =>
        \A j \in 1..Len(handled) :
            (handled[j].ok /\ handled[j].pending = {}) =>
                /\ NoDuplicates(handled[j].tuples)
                /\ SeqToSet(handled[j].tuples) = KeyCounts(handled[j].window)

\* C15: in keyed_window_3a_rocksdb_count the count emitted for a key when the
\* notification for W is handled is the number of that key's records with
\* timestamp in [W - slide*slice_count, W), also when records with timestamp
\* >= W were ingested before.
C15_RocksKeyedCounts ==
    engine = "keyed_window_3a_rocksdb_count" =>
        \A j \in 1..Len(handled) :
            handled[j].ok =>
                \A m \in 1..Len(handled[j].tuples) :
                    LET key == handled[j].tuples[m][1]
                        w == handled[j].window
                    IN  handled[j].tuples[m][2] = Cardinality({x \in 1..Len(w) : w[x] = key})

\* C16: two different combinations of handle path and primitive name never
\* yield the same physical name.
C16_NamesDoNotCollide ==
    LastIs("get_managed_map") =>
        \A path \in Paths : \A name \in Names :
            (<<path, name>> # <<lastOp.path, lastOp.name>>)
                => physical_name(HandleOf(RootHandle, path), name) # lastOp.result


(***************************************************************************)
(* Claims about the primitives, checked under SpecPrimitives.              *)
(***************************************************************************)
\* C17: on every backend, what was written through a managed map or a managed
\* value obtained under a name is read back through a primitive obtained later
\* under the same name from the same backend instance, after the first
\* primitive object was dropped: a get through the later object returns
\* Some(v) for the v last set or inserted through the earlier one.
C17_DataOutlivesPrimitive ==
    (/\ primitive.kind \in {"value", "map"}
     /\ lastOp.op = "get"
     /\ written.kind = "set"
     /\ written.by < primitive.gen)
        => lastOp.result = Some(written.val)

\* C18: for the ManagedValue of every backend, a value nothing was written to
\* reads None; the take() that follows set(v) returns Some(v); and the take()
\* or get() that follows that take() returns None, the value being removed.
C18_TakeRemovesValue ==
    primitive.kind = "value" =>
        /\ (lastOp.op = "get" /\ written.kind = "fresh") => lastOp.result = None
        /\ (lastOp.op = "take" /\ lastOp.prev.op = "set")
              => lastOp.result = Some(lastOp.prev.arg)
        /\ (lastOp.op \in {"take", "get"} /\ lastOp.prev.op = "take"
               /\ lastOp.prev2.op = "set")
              => lastOp.result = None

\* C19: for the ManagedCount of every backend, a count nothing was written to
\* reads 0, and after any sequence of set, increase and decrease calls on the
\* count object get returns the value of the last set (0 if there was none)
\* plus the increases and minus the decreases made after it.
C19_CountAddsUp ==
    (primitive.kind = "count" /\ primitive.gen = 1 /\ lastOp.op = "get")
        => lastOp.result = written.val

C19_Witness ==
    /\ primitive.kind = "count"
    /\ primitive.gen = 1
    /\ backend = "rocksdb"
    /\ lastOp.op = "get"
    /\ lastOp.prev.op = "decrease"
    /\ lastOp.prev.arg = 2
    /\ lastOp.prev2.op = "increase"
    /\ lastOp.result = -1

\* C20: for a RocksDB map whose integer keys are inserted after to_be(),
\* iter(from_key) yields the entries stored in the map with key >= from_key,
\* in ascending numeric key order, the smallest such key first, and reports
\* the end after the last of them.
IterDecoded ==
    [m \in 1..Len(lastOp.result) |->
        DeserializeBe(SubSeq(lastOp.result[m], get_key_prefix_length(lastOp.name) + 1,
                             Len(lastOp.result[m])))]

C20_IterAscending ==
    LastIs("iter") =>
        LET stored == {k \in written[lastOp.name] : k >= lastOp.key} IN
        /\ Len(lastOp.result) = Cardinality(stored)
        /\ SeqToSet(IterDecoded) = stored
        /\ \A m \in 1..(Len(lastOp.result) - 1) : IterDecoded[m] < IterDecoded[m + 1]


(***************************************************************************)
(* Claims about the FASTER backends, checked under SpecFaster.             *)
(***************************************************************************)
FasterCalled == lastOp.op \in {"upsert", "read", "rmw"}

\* the operations take the serial numbers 1, 2, 3, .. across all keys
SerialsInOrder ==
    /\ db.serial = written.ops + 1
    /\ FasterCalled => lastOp.serial = written.ops

\* C21 (as stated): every upsert, read and rmw of a FASTER backend takes the
\* next serial number, starting at 1 and growing by 1 per operation; refresh
\* is called exactly on the serial numbers that are multiples of 16 and
\* complete_pending exactly on the multiples of 1024, so at most 16 operations
\* pass between two refreshes.
C21_RefreshEvery16 ==
    /\ SerialsInOrder
    /\ FasterCalled =>
        /\ lastOp.refresh <=> (lastOp.serial % 16 = 0)
        /\ lastOp.complete_pending <=> (lastOp.serial % 1024 = 0)
    /\ written.since_refresh <= 16

\* C21 (amended): the serial numbers are as stated; FASTERBackend (and the
\* faster_node backend) call refresh exactly on the multiples of 16 and
\* complete_pending exactly on the multiples of 1024; FASTERInMemoryBackend
\* calls complete_pending exactly on the multiples of 1024 and refresh exactly
\* on the other multiples of 32; at most 16, respectively 32, operations pass
\* between two drains.
C21_DrainCadence ==
    /\ SerialsInOrder
    /\ (FasterCalled /\ backend # "faster_in_memory") =>
        /\ lastOp.refresh <=> (lastOp.serial % 16 = 0)
        /\ lastOp.complete_pending <=> (lastOp.serial % 1024 = 0)
    /\ (FasterCalled /\ backend = "faster_in_memory") =>
        /\ lastOp.refresh <=> (lastOp.serial % 32 = 0 /\ lastOp.serial % 1024 # 0)
        /\ lastOp.complete_pending <=> (lastOp.serial % 1024 = 0)
    /\ written.since_drain <= (IF backend = "faster_in_memory" THEN 32 ELSE 16)
    /\ backend # "faster_in_memory" => written.since_refresh <= 16

C21_Witness ==
    /\ backend = "faster_in_memory"
    /\ FasterCalled
    /\ lastOp.serial = 1024
    /\ lastOp.complete_pending
    /\ ~lastOp.refresh
    /\ lastOp.key = SerializeStr(<<99>>)

\* C22: merge_vectors returns the existing value (when there is one) followed
\* by all operands in their order, the operands alone when there is no
\* existing value, and merging the first operands and then the rest onto that
\* result gives the same vector as merging all operands at once.
C22_MergeVectorsConcatenates ==
    LastIs("merge_vectors") =>
        /\ lastOp.result =
              Some(SerializeVec((IF lastOp.existing_val.some
                                 THEN lastOp.existing_val.val ELSE <<>>)
                                \o ConcatSeq(lastOp.operands)))
        /\ lastOp.staged = lastOp.result

C22_Witness ==
    /\ LastIs("merge_vectors")
    /\ lastOp.existing_val = Some(<< <<1, 2>> >>)
    /\ lastOp.operands = << << <<300, 4>> >>, << <<1, 2>>, <<300, 4>> >> >>
    /\ lastOp.split = 1
    /\ DeserializeVec(lastOp.staged.val) = << <<1, 2>>, <<300, 4>>, <<1, 2>>, <<300, 4>> >>


(***************************************************************************)
(* Claims about the interchangeable backends.                              *)
(***************************************************************************)
\* C23: for any sequence of insert, rmw and get on integer values, the
\* in-memory, RocksDB, RocksDB-merge (sum) and FASTER maps return the same
\* result for every get.  (Stated as the contract demands; the in-memory
\* map breaks it while the caller holds the Rc of an earlier get.)
C23_BackendsAgree ==
    LastIs("get") =>
        \A b \in EquivBackends : lastOp.result[b] = lastOp.result["rocksdb"]

\* the maps other than the in-memory one agree on every get
C23_OthersAgree ==
    LastIs("get") =>
        \A b \in EquivBackends \ {"in_memory"} :
            lastOp.result[b] = lastOp.result["rocksdb"]

(***************************************************************************)
(* Claims about the keyed engine, checked under SpecKeyed.                 *)
(***************************************************************************)
\* the notifications the step asked for
Asked == SeqToSet(SubSeq(requested', Len(requested) + 1, Len(requested')))

\* C24 (as stated): when a batch advances the slide cursor, every new
\* window_end <= current_slide is added to the pending-fire set without a
\* notification request, and every other new window_end gets a notification
\* request and is not added to the set.
C24_AtOrBehindIsPending ==
    [][(last_slide_seen' # last_slide_seen) =>
          LET current_slide == last_slide_seen'
              ends == NewWindowEnds(last_slide_seen, current_slide)
          IN  \A j \in 1..Len(ends) :
                  IF ends[j] <= current_slide
                  THEN ends[j] \in to_fire' /\ ends[j] \notin Asked
                  ELSE ends[j] \in Asked /\ ends[j] \notin to_fire']_vars

\* C24 (amended): when a batch advances the slide cursor, every new
\* window_end strictly behind current_slide (window_end < current_slide) is
\* added to the pending-fire set without a notification request, and every
\* other new window_end, the one equal to current_slide included, gets a
\* notification request and is not added to the set.
C24_BehindIsPending ==
    [][(last_slide_seen' # last_slide_seen) =>
          LET current_slide == last_slide_seen'
              ends == NewWindowEnds(last_slide_seen, current_slide)
          IN  \A j \in 1..Len(ends) :
                  IF ends[j] < current_slide
                  THEN /\ ends[j] \in to_fire'
                       /\ ends[j] \notin Asked
                       /\ ends[j] \notin notificator'
                  ELSE /\ ends[j] \in Asked
                       /\ ends[j] \in notificator'
                       /\ ends[j] \notin to_fire']_vars

\* one batch left windows pending and asked a notification for the window
\* that ends at current_slide
C24_Witness ==
    /\ engine = "keyed_window_3_faster_count"
    /\ Len(handled) = 0
    /\ to_fire # {}
    /\ last_slide_seen \in notificator
    /\ \A w \in to_fire : w < last_slide_seen

C26_PendingWindowCounts ==
    engine = "keyed_window_3_faster_count" =>
        \A j \in 1..Len(handled) :
            handled[j].pending # {} =>
                \A m \in 1..Len(handled[j].fired) :
                    LET f == handled[j].fired[m] IN
                    \A x \in 1..Len(f.tuples) :
                        f.tuples[x][2] =
                            Cardinality({y \in 1..Len(f.window) :
                                            f.window[y] = f.tuples[x][1]})

(***************************************************************************)
(* Claims about the purge of the global pane engine.                       *)
(***************************************************************************)
PaneMissing == aborted = "Pane to remove must exist"

\* C27: in window_3_faster_count and window_3_faster_rank, a notification
\* handled while the first pane W - slide*(slice_count-1) of its window has
\* no stored entry stops the operator with the fatal error "Pane to remove
\* must exist": nothing is emitted for the window and no later notification
\* is handled.
C27_MissingFirstPaneIsFatal ==
    engine \in GlobalEngines =>
        \A j \in 1..Len(handled) :
            (window_slice_count - 1) \in handled[j].missing =>
                /\ ~handled[j].ok
                /\ handled[j].tuples = <<>>
                /\ j = Len(handled)
                /\ PaneMissing

\* the rank engine stops on a window whose later panes hold records but whose
\* first pane was never written
C27_Witness ==
    /\ engine = "window_3_faster_rank"
    /\ PaneMissing
    /\ window_slice_count >= 2
    /\ handled # <<>>
    /\ handled[Len(handled)].missing = {window_slice_count - 1}
    /\ Len(handled[Len(handled)].window) > 0

\* C28: in keyed_window_3_faster_count the purge of a window close tolerates
\* absent state: a handler that finds no keyed pane or no slice-index entry
\* to purge completes without a fatal error.  (Stated as the contract
\* demands; the purge of the slice index expects the entry to exist.)
C28_PurgeToleratesAbsence ==
    engine = "keyed_window_3_faster_count" =>
        /\ aborted # "Slice must exist in index"
        /\ \A j \in 1..Len(handled) : handled[j].ok

\* the pane ends records can be stored under
PaneEnds == {SlideEnd(ts) : ts \in 0..MaxTime}
Stored(d, P) == Peek(d, pane_buckets, <<P>>).some
FirstPaneOf(W) == W - window_slide_ns * (window_slice_count - 1)

\* C29: in the global pane engine a stored pane with end P disappears only in
\* the step that handles the notification for window_end
\* P + slide*(slice_count-1); notifications are handled in ascending order,
\* and no pane of the window being handled was the first pane of a window
\* handled before, so every window reads its panes before they are purged.
C29_PanePurgedByLastWindow ==
    [][/\ \A P \in PaneEnds :
              (Stored(db, P) /\ ~Stored(db', P)) =>
                  /\ Len(handled') = Len(handled) + 1
                  /\ FirstPaneOf(handled'[Len(handled')].time) = P
       /\ Len(handled') = Len(handled) + 1 =>
              \A j \in 1..Len(handled) :
                  /\ handled[j].time < handled'[Len(handled')].time
                  /\ \A i \in 0..(window_slice_count - 1) :
                         FirstPaneOf(handled[j].time)
                             # handled'[Len(handled')].time - window_slide_ns * i]_vars

\* on the in-memory map a pane with records was read by two windows and
\* purged by the second
C29_Witness ==
    /\ engine = "window_3_faster_count"
    /\ backend = "in_memory"
    /\ window_slice_count = 2
    /\ Len(handled) >= 2
    /\ handled[1].ok /\ handled[2].ok
    /\ handled[2].time = handled[1].time + window_slide_ns
    /\ handled[2].first > 0
    /\ ~Stored(db, FirstPaneOf(handled[2].time))

\* the one-second slices records can be indexed under
SliceEnds == {SliceEnd(ts) : ts \in 0..MaxTime}

\* C30: in keyed_window_3_faster_count every slice-index entry lists each key
\* at most once, after any sequence of batches and notifications.
C30_IndexKeysDistinct ==
    engine = "keyed_window_3_faster_count" =>
        \A slice \in SliceEnds :
            LET keys == Peek(db, state_index, <<slice>>) IN
            keys.some => NoDuplicates(keys.val)

\* two records of one key share a slice, whose entry lists the key once
C30_Witness ==
    /\ engine = "keyed_window_3_faster_count"
    /\ \E slice \in SliceEnds :
          LET keys == Peek(db, state_index, <<slice>>) IN
          /\ keys.some
          /\ Len(keys.val) = 1
          /\ Len(KeysIn(ingested, slice - OneSecond, slice)) = 2

(***************************************************************************)
(* Claims about windows without records.                                   *)
(***************************************************************************)
\* C31: in window_3_faster_rank, handling the notification of a window all of
\* whose panes are missing emits no tuple and completes without a fatal
\* error.  (Stated as the contract demands; the purge of the first pane and
\* the read of records[0] both expect data.)
C31_EmptyRankWindowIsQuiet ==
    engine = "window_3_faster_rank" =>
        \A j \in 1..Len(handled) :
            handled[j].missing = 0..(window_slice_count - 1) =>
                /\ handled[j].tuples = <<>>
                /\ handled[j].ok
                /\ aborted = ""

\* C40: in the in-memory ManagedValue get never changes the stored value:
\* after set(v), every get on the same object returns Some(v), also while
\* the caller holds the Rc an earlier get returned.  (Stated as the contract
\* demands; get takes the value out with Rc::try_unwrap.)
C40_GetKeepsValue ==
    (/\ backend = "in_memory"
     /\ primitive.kind = "value"
     /\ lastOp.op = "get"
     /\ written.kind = "set"
     /\ written.by = primitive.gen)
        => lastOp.result = Some(written.val)

(***************************************************************************)
(* Claims about handles kept by the caller, checked under SpecMap.         *)
(***************************************************************************)
\* C39: in the in-memory ManagedMap, rmw(k, d) on a key holding v stores
\* combine(v, d) and remove(k) on a key holding v returns Some(v), also while
\* the caller holds the Rc an earlier get(k) returned.  (Stated as the
\* contract demands; both take the old value with Rc::try_unwrap.)
C39_HeldHandleIsHarmless ==
    (backend = "in_memory" /\ lastOp.op \in {"rmw", "remove"}
                           /\ lastOp.before[lastOp.key].some) =>
        /\ LastIs("rmw") =>
              Peek(db, MapName, lastOp.key) =
                  Some(FasterRmw(lastOp.before[lastOp.key].val, lastOp.arg))
        /\ LastIs("remove") => lastOp.result = lastOp.before[lastOp.key]

(***************************************************************************)
(* Claims about contains, checked under SpecMap.                           *)
(***************************************************************************)
\* C35: for every backend's ManagedMap, contains(k) returns true exactly when
\* get(k) would return Some, and false for a key that was never written.
\* (Stated as the contract demands; the RocksDB maps answer true for every
\* key.)
C35_ContainsIffStored ==
    LastIs("contains") =>
        /\ lastOp.result = lastOp.before[lastOp.key].some
        /\ lastOp.prev.kind = "fresh" => lastOp.result = FALSE

\* the in-memory, in-memory-native and FASTER maps answer as claimed
C35_OthersAnswerRight ==
    (LastIs("contains") /\ backend \notin RocksBackends) =>
        /\ lastOp.result = lastOp.before[lastOp.key].some
        /\ lastOp.prev.kind = "fresh" => lastOp.result = FALSE

(***************************************************************************)
(* Claims about the notifications the global pane engine asks for.         *)
(***************************************************************************)
\* C37: in window_3_faster_count and window_3_faster_rank every window_end a
\* batch hands to time.delayed and notify_at is at or after the batch's input
\* time, so no batch stops at the capability check.  (Stated as the contract
\* demands; a batch that skips slice_count slides or more asks for windows
\* behind its own time.)
C37_RequestsNotBehindInput ==
    engine \in GlobalEngines =>
        aborted # "delayed: time not beyond the capability"

\* C38: in the global pane engine the window_ends a notification was
\* requested for are exactly the multiples k * slide with
\* slice_count <= k <= last_slide_seen / slide + slice_count - 1, each once:
\* contiguous, without a gap.
C38_RequestedContiguous ==
    engine \in GlobalEngines =>
        /\ SeqToSet(requested) =
              {k * window_slide_ns :
                  k \in window_slice_count ..
                        ((last_slide_seen \div window_slide_ns) + window_slice_count - 1)}
        /\ NoDuplicates(requested)
        /\ last_slide_seen % window_slide_ns = 0

\* batches have moved the cursor over several slides, one of them over two
\* slides at once
C38_Witness ==
    /\ engine = "window_3_faster_count"
    /\ window_slice_count = 2
    /\ aborted = ""
    /\ last_slide_seen = 3 * window_slide_ns
    /\ Len(requested) = 3
    /\ Cardinality(notificator) >= 2

(***************************************************************************)
(* Claims about the keys an iterator returns, checked under SpecNext.      *)
(***************************************************************************)
\* the raw key without its first get_key_prefix_length() bytes, deserialised
StrippedRawKey ==
    DeserializeU64(SubSeq(lastOp.raw, get_key_prefix_length(written.name) + 1,
                          Len(lastOp.raw)))

\* C36: for the RocksDB and RocksDB-merge maps the key returned by next(iter),
\* and likewise the raw iterator key after stripping get_key_prefix_length()
\* bytes, is the key that was inserted, for every map name.  (Stated as the
\* contract demands; next of the RocksDB-merge map does not strip the name.)
C36_NextReturnsInsertedKey ==
    (LastIs("next") /\ lastOp.raw # <<>>) =>
        /\ lastOp.result.some
        /\ lastOp.result.val \in written.keys
        /\ lastOp.raw = prefix_key(written.name, <<lastOp.result.val>>)
        /\ StrippedRawKey = lastOp.result.val

\* next of the RocksDB map returns the inserted key, and on both maps the
\* raw key stripped by the caller decodes to it
C36_StrippingDecodes ==
    (LastIs("next") /\ lastOp.raw # <<>>) =>
        /\ StrippedRawKey \in written.keys
        /\ lastOp.raw = prefix_key(written.name, <<StrippedRawKey>>)
        /\ backend = "rocksdb" => lastOp.result = Some(StrippedRawKey)
\* the keys of the tuples a handler gave, in the order given
TupleKeys(tuples) == [m \in 1..Len(tuples) |-> tuples[m][2]]

\* C32: in window_1_faster_rank every window close completes, and its rank
\* output carries the key of every ingested event of the window exactly once
\* (the keys of the events with timestamp in [W - slide*slice_count, W), with
\* their multiplicities), also when two events carry the same timestamp.
C32_EveryEventRankedOnce ==
    engine = "window_1_faster_rank" =>
        \A j \in 1..Len(handled) :
            handled[j].window # <<>> =>
                /\ handled[j].ok
                /\ TupleKeys(handled[j].tuples) = handled[j].window

\* two events of one window that share a timestamp, on the backend the
\* workers are started with: both keys are ranked
C32_SharedTimestampRanked ==
    (engine = "window_1_faster_rank" /\ backend = "faster"
        /\ window_slide_ns = 2 /\ window_slice_count = 1
        /\ ingested = <<(<<7, 0>>), (<<9, 0>>)>>) =>
        \A j \in 1..Len(handled) :
            handled[j].time = 2 => TupleKeys(handled[j].tuples) = <<7, 9>>

\* C33: in window_1_rocksdb every fired window emits exactly the ingested
\* (timestamp, auction) records with timestamp in [window_start, window_end):
\* no marker record of the operator is emitted and no ingested event of the
\* window is skipped.
C33_WindowEmitsItsRecords ==
    engine = "window_1_rocksdb" =>
        \A j \in 1..Len(handled) : handled[j].tuples = handled[j].window

\* no fired window emits a marker (a record with value 0; auctions are not 0)
C33_NoMarkerEmitted ==
    engine = "window_1_rocksdb" =>
        \A j \in 1..Len(handled) :
            \A m \in 1..Len(handled[j].tuples) : handled[j].tuples[m][2] # 0

\* an event whose timestamp is a multiple of the slide is emitted by its window
C33_BoundaryEventEmitted ==
    (engine = "window_1_rocksdb" /\ window_slice_count = 1
        /\ ingested = <<(<<7, 2>>)>>) =>
        \A j \in 1..Len(handled) :
            handled[j].time = 4 => handled[j].tuples = <<(<<2, 7>>)>>

\* the batches so far came with non-decreasing input times, and no event
\* timestamp exceeded the input time of its batch
OrderlyBatches ==
    /\ \A j \in 1..(Len(batch_log) - 1) : batch_log[j].time <= batch_log[j + 1].time
    /\ \A j \in 1..Len(batch_log) :
           \A m \in 1..Len(batch_log[j].data) : batch_log[j].data[m][2] <= batch_log[j].time

Initialised == Flatten([j \in 1..Len(batch_log) |-> batch_log[j].initialised])

\* the records merged into pane p so far, in the order of their arrival
MergedInto(p) ==
    Flatten([j \in 1..Len(batch_log) |->
                SelectSeq(batch_log[j].data, LAMBDA r : SlideEnd(r[2]) = p)])

\* In window_3b_rocksdb, when the batches
\* came with non-decreasing input times and no event timestamp beyond the
\* input time of its batch, every pane key has been initialised at most once,
\* every pane a record was merged into was initialised by the same or an
\* earlier batch, and every pane holds all the records merged into it.
C34_InitialisedOnceAhead ==
    engine = "window_3b_rocksdb" =>
        /\ \A j \in 1..Len(batch_log) :
               \A m \in 1..Len(batch_log[j].initialised) :
                   batch_log[j].initialised[m] < max_window_seen
        /\ OrderlyBatches =>
               /\ NoDuplicates(Initialised)
               /\ \A j \in 1..Len(batch_log) :
                      \A m \in 1..Len(batch_log[j].data) :
                          \E i \in 1..j :
                              \E x \in 1..Len(batch_log[i].initialised) :
                                  batch_log[i].initialised[x] =
                                      SlideEnd(batch_log[j].data[m][2])
               /\ \A p \in SeqToSet(Initialised) :
                      RocksDB_get_be(db, pane_buckets, <<p>>).result = Some(MergedInto(p))

\* max_window_seen never decreases
C34_MaxWindowMonotone == [][max_window_seen' >= max_window_seen]_vars

\* C34: in window_3b_rocksdb max_window_seen never decreases, and for batches
\* with non-decreasing input times whose event timestamps do not exceed the
\* batch input time each pane key is initialised with an empty list at most
\* once, before the first record is merged into it, so that no merged record
\* is discarded.
C34_PanesInitialisedOnceAhead == []C34_InitialisedOnceAhead /\ C34_MaxWindowMonotone

\* without the condition on the batches a pane is initialised over its records
C34_AnyBatches ==
    engine = "window_3b_rocksdb" =>
        \A p \in SeqToSet(Initialised) :
            RocksDB_get_be(db, pane_buckets, <<p>>).result = Some(MergedInto(p))

\* two orderly batches: the second one initialises a new pane and merges into it
C34_Witness ==
    /\ engine = "window_3b_rocksdb"
    /\ OrderlyBatches
    /\ Len(batch_log) = 2
    /\ batch_log[1].initialised = <<0, 2>> /\ batch_log[1].data # <<>>
    /\ batch_log[2].initialised = <<4>> /\ batch_log[2].data = <<(<<7, 2>>)>>
    /\ max_window_seen = 6

====
